---------------------------- MODULE Spec2Model ----------------------------
(***************************************************************************)
(* A model of the raffia tokenizer (src/raffia/src/tokenizer/mod.rs).      *)
(*                                                                         *)
(* The source text is a sequence of characters; a character is a string of *)
(* length one, except the stand-in "<e9>" for a non-ASCII character that   *)
(* takes two bytes in UTF-8.  The cursor `pos` of the tokenizer state is   *)
(* the number of characters consumed so far; Off(pos) is the byte offset   *)
(* the CharIndices iterator reports for the next character.                *)
(***************************************************************************)
EXTENDS Integers, Sequences, FiniteSets, TLC

VARIABLES source, syntax, debug_build, state, comments, tokens, result, lastOp

vars == <<source, syntax, debug_build, state, comments, tokens, result, lastOp>>

(***************************************************************************)
(* Bounds of the model.                                                    *)
(***************************************************************************)
MaxLen == 3

MaxFrag == 1

(***************************************************************************)
(* Character classes (char::is_ascii_* of the Rust standard library).      *)
(***************************************************************************)
Digits == {"0", "1", "2", "3", "4", "5", "6", "7", "8", "9"}

Lower ==
  {"a", "b", "c", "d", "e", "f", "g", "h", "i", "j", "k", "l", "m",
   "n", "o", "p", "q", "r", "s", "t", "u", "v", "w", "x", "y", "z"}

Upper ==
  {"A", "B", "C", "D", "E", "F", "G", "H", "I", "J", "K", "L", "M",
   "N", "O", "P", "Q", "R", "S", "T", "U", "V", "W", "X", "Y", "Z"}

NonAscii == {"<e9>"}

NoChar == "<eof>"

is_ascii_digit(c) == c \in Digits

is_ascii_alphabetic(c) == c \in Lower \cup Upper

is_ascii_alphanumeric(c) == is_ascii_alphabetic(c) \/ is_ascii_digit(c)

is_ascii_hexdigit(c) ==
  c \in Digits \cup {"a", "b", "c", "d", "e", "f", "A", "B", "C", "D", "E", "F"}

is_ascii_whitespace(c) == c \in {" ", "\t", "\n", "\f", "\r"}

is_ascii(c) == c \notin NonAscii

len_utf8(c) == IF c \in NonAscii THEN 2 ELSE 1

is_start_of_ident(c) ==
  is_ascii_alphabetic(c) \/ c = "-" \/ c = "_" \/ ~is_ascii(c) \/ c = "\\"

\* the characters scan_ident_sequence and scan_hash continue over
is_ident_char(c) ==
  is_ascii_alphanumeric(c) \/ c = "-" \/ c = "_" \/ ~is_ascii(c)

(***************************************************************************)
(* The character cursor: Peekable<CharIndices>.                            *)
(***************************************************************************)
NChars == Len(source)

\* byte offset of the character after the first p characters
Off(p) ==
  IF \A i \in 1..NChars : source[i] \notin NonAscii THEN p
  ELSE p + Cardinality({i \in 1..p : source[i] \in NonAscii}) * (len_utf8("<e9>") - 1)

\* the character the iterator yields after p characters, NoChar at the end
CharAt(p) == IF p < NChars THEN source[p + 1] ELSE NoChar

AtEnd(p) == p >= NChars

current_offset(st) == Off(st.pos)

peek_one_char(st) == CharAt(st.pos)

\* peek_two_chars is Some only when two characters are left
HasTwo(p) == p + 2 <= NChars

\* first position q >= p whose character is not in the class S (or the end)
RECURSIVE RunEnd(_, _)
RunEnd(p, S) ==
  IF AtEnd(p) \/ CharAt(p) \notin S THEN p ELSE RunEnd(p + 1, S)

WhiteSpace == {" ", "\t", "\n", "\f", "\r"}

\* the characters of the byte range [s, e) when both are character
\* boundaries of the source
CharsOf(s, e) ==
  IF \A i \in 1..NChars : source[i] \notin NonAscii
  THEN IF s > e THEN <<"<split>">> ELSE SubSeq(source, s + 1, e)
  ELSE LET ps == {p \in 0..NChars : Off(p) = s}
           pe == {p \in 0..NChars : Off(p) = e}
       IN  IF ps = {} \/ pe = {} \/ s > e THEN <<"<split>">>
           ELSE LET a == CHOOSE p \in ps : TRUE
                    b == CHOOSE p \in pe : TRUE
                IN  SubSeq(source, a + 1, b)

(***************************************************************************)
(* Results: a token, an Error value, or a panic (a failed assertion).      *)
(* rs..re is the raw slice; us..ue the raw slice of a Dimension's unit.    *)
(***************************************************************************)
Tok(kind, s, e, rs, re) ==
  [t |-> "Ok", kind |-> kind, start |-> s, end |-> e,
   rs |-> rs, re |-> re, us |-> 0, ue |-> 0, tail |-> FALSE]

Err(kind, s, e) ==
  [t |-> "Err", kind |-> kind, start |-> s, end |-> e,
   rs |-> 0, re |-> 0, us |-> 0, ue |-> 0, tail |-> FALSE]

Panic(kind) ==
  [t |-> "Panic", kind |-> kind, start |-> 0, end |-> 0,
   rs |-> 0, re |-> 0, us |-> 0, ue |-> 0, tail |-> FALSE]

NoToken == Tok("None", 0, 0, 0, 0)

build_eof_error(st) ==
  Err("UnexpectedEof", current_offset(st), current_offset(st))

IsOk(r) == r.t = "Ok"

(***************************************************************************)
(* handle_escape: the unescaped value of a raw slice, as code points.      *)
(***************************************************************************)
Ascii ==
  <<" ", "!", "\"", "#", "$", "%", "&", "'", "(", ")", "*", "+", ",", "-", ".", "/",
    "0", "1", "2", "3", "4", "5", "6", "7", "8", "9", ":", ";", "<", "=", ">", "?",
    "@", "A", "B", "C", "D", "E", "F", "G", "H", "I", "J", "K", "L", "M", "N", "O",
    "P", "Q", "R", "S", "T", "U", "V", "W", "X", "Y", "Z", "[", "\\", "]", "^", "_",
    "<60>", "a", "b", "c", "d", "e", "f", "g", "h", "i", "j", "k", "l", "m", "n", "o",
    "p", "q", "r", "s", "t", "u", "v", "w", "x", "y", "z", "{", "|", "}", "~">>

\* the code point of a character
CodeOf(c) ==
  IF c = "\t" THEN 9
  ELSE IF c = "\n" THEN 10
  ELSE IF c = "\f" THEN 12
  ELSE IF c = "\r" THEN 13
  ELSE IF c = "<e9>" THEN 233
  ELSE 31 + (CHOOSE i \in 1..Len(Ascii) : Ascii[i] = c)

HexDigitVal(c) ==
  IF c \in Digits THEN CodeOf(c) - 48
  ELSE IF c \in Lower THEN CodeOf(c) - 87
  ELSE CodeOf(c) - 55

\* u32::from_str_radix(s[i .. i + n), 16)
RECURSIVE HexVal(_, _, _)
HexVal(s, i, n) ==
  IF n = 0 THEN 0 ELSE HexVal(s, i, n - 1) * 16 + HexDigitVal(s[i + n - 1])

ReplacementCharacter == 65533

\* a conversion that takes every value for a character
from_u32_unchecked(u) == u

\* char::from_u32(u).unwrap_or(char::REPLACEMENT_CHARACTER)
from_u32_or_replacement(u) ==
  IF u > 1114111 \/ (u >= 55296 /\ u <= 57343) THEN ReplacementCharacter ELSE u

\* the number of hex digits taken from index i on when `count` are taken already
RECURSIVE HexCount(_, _, _)
HexCount(s, i, count) ==
  IF i <= Len(s) /\ is_ascii_hexdigit(s[i]) /\ count < 6
  THEN HexCount(s, i + 1, count + 1)
  ELSE count

RECURSIVE Unescape(_, _, _)
Unescape(s, i, acc) ==
  IF i > Len(s) THEN [err |-> FALSE, value |-> acc]
  ELSE IF s[i] # "\\" THEN Unescape(s, i + 1, Append(acc, CodeOf(s[i])))
  ELSE IF i + 1 > Len(s) THEN [err |-> TRUE, value |-> acc]
  ELSE IF is_ascii_hexdigit(s[i + 1])
  THEN LET n == HexCount(s, i + 2, 1)
           j == i + 1 + n
           k == IF j <= Len(s) /\ is_ascii_whitespace(s[j]) THEN j + 1 ELSE j
       IN  Unescape(s, k, Append(acc, from_u32_or_replacement(HexVal(s, i + 1, n))))
  ELSE Unescape(s, i + 2, Append(acc, CodeOf(s[i + 1])))

handle_escape(s) == Unescape(s, 1, <<>>)

handle_escape_fails(s, e) == handle_escape(CharsOf(s, e)).err

to_ascii_lowercase(u) == IF u >= 65 /\ u <= 90 THEN u + 32 ELSE u

\* value.eq_ignore_ascii_case(word), both as code points
eq_ignore_ascii_case(value, word) ==
  /\ Len(value) = Len(word)
  /\ \A i \in 1..Len(value) :
       to_ascii_lowercase(value[i]) = to_ascii_lowercase(word[i])

(***************************************************************************)
(* Whitespace, indentation and comments.                                   *)
(***************************************************************************)
skip_ws(st) == [st EXCEPT !.pos = RunEnd(st.pos, WhiteSpace)]

RECURSIVE ScanIndentLoop(_, _, _)
\* start = -1 stands for None
ScanIndentLoop(st, p, start) ==
  IF AtEnd(p)
  THEN [tok |-> Tok("Eof", Off(p), Off(p), 0, 0), st |-> [st EXCEPT !.pos = p]]
  ELSE IF is_ascii_whitespace(CharAt(p))
  THEN LET c == CharAt(p)
           brk == c = "\n" \/ (c = "\r" /\ CharAt(p + 1) = "\n")
       IN  ScanIndentLoop(st, p + 1, IF brk THEN Off(p) + 1 ELSE start)
  ELSE IF start = -1
  THEN [tok |-> NoToken, st |-> [st EXCEPT !.pos = p]]
  ELSE LET end == Off(p)
           len == end - start
       IN  IF len > st.indent_size
           THEN [tok |-> Tok("Indent", start, end, 0, 0),
                 st |-> [st EXCEPT !.pos = p, !.indent_size = len]]
           ELSE IF len < st.indent_size
           THEN [tok |-> Tok("Dedent", start, end, 0, 0),
                 st |-> [st EXCEPT !.pos = p, !.indent_size = len]]
           ELSE [tok |-> Tok("Linebreak", start, end, 0, 0),
                 st |-> [st EXCEPT !.pos = p]]

scan_indent(st) == ScanIndentLoop(st, st.pos, -1)

Comment(kind, s, e, cs, ce) ==
  [kind |-> kind, start |-> s, end |-> e, cs |-> cs, ce |-> ce]

RECURSIVE BlockCommentLoop(_, _, _)
BlockCommentLoop(q, start, cs) ==
  IF HasTwo(q)
  THEN IF CharAt(q) = "*" /\ CharAt(q + 1) = "/"
       THEN [pos |-> q + 2, cm |-> Comment("Block", start, Off(q) + 2, cs, Off(q))]
       ELSE BlockCommentLoop(q + 1, start, cs)
  ELSE [pos |-> q, cm |-> Comment("Block", start, Off(NChars), cs, Off(NChars))]

\* called with "/" "*" next
scan_block_comment(st) ==
  BlockCommentLoop(st.pos + 2, Off(st.pos), Off(st.pos + 1) + 1)

RECURSIVE LineCommentLoop(_, _, _)
LineCommentLoop(q, start, cs) ==
  IF HasTwo(q)
  THEN IF CharAt(q) = "\r" /\ CharAt(q + 1) = "\n"
       THEN [pos |-> q + 2, cm |-> Comment("Line", start, Off(q), cs, Off(q))]
       ELSE IF CharAt(q) = "\n"
       THEN [pos |-> q + 1, cm |-> Comment("Line", start, Off(q), cs, Off(q))]
       ELSE LineCommentLoop(q + 1, start, cs)
  ELSE IF CharAt(q) = "\n"
       THEN [pos |-> q + 1, cm |-> Comment("Line", start, Off(q), cs, Off(q))]
       ELSE [pos |-> q, cm |-> Comment("Line", start, Off(NChars), cs, Off(NChars))]

\* called with "/" "/" next
scan_line_comment(st) ==
  LineCommentLoop(st.pos + 2, Off(st.pos), Off(st.pos + 1) + 1)

RECURSIVE SkipLoop(_, _, _)
SkipLoop(st, indent, cm) ==
  LET p == st.pos IN
  IF HasTwo(p) /\ CharAt(p) = "/" /\ CharAt(p + 1) = "*"
  THEN LET r == scan_block_comment(st)
       IN  SkipLoop([st EXCEPT !.pos = r.pos], indent, Append(cm, r.cm))
  ELSE IF HasTwo(p) /\ CharAt(p) = "/" /\ CharAt(p + 1) = "/" /\ syntax # "Css"
  THEN LET r == scan_line_comment(st)
       IN  SkipLoop([st EXCEPT !.pos = r.pos], indent, Append(cm, r.cm))
  ELSE IF is_ascii_whitespace(CharAt(p))
  THEN IF syntax = "Sass"
       THEN LET r == scan_indent(st) IN SkipLoop(r.st, r.tok, cm)
       ELSE SkipLoop(skip_ws(st), indent, cm)
  ELSE [indent |-> indent, st |-> st, cm |-> cm]

\* the token is NoToken when no layout token is to be returned
skip_ws_or_comment(st) == SkipLoop(st, NoToken, <<>>)

(***************************************************************************)
(* Escapes and identifiers.                                                *)
(***************************************************************************)
\* Iterator::next on the cursor: nothing is consumed at the end
Adv(p) == IF AtEnd(p) THEN p ELSE p + 1

RECURSIVE EscapeLoop(_, _, _)
EscapeLoop(q, count, end) ==
  IF AtEnd(q) THEN [err |-> NoToken, pos |-> q, end |-> end]
  ELSE IF is_ascii_hexdigit(CharAt(q)) /\ count < 6
  THEN EscapeLoop(q + 1, count + 1, end)
  ELSE IF is_ascii_whitespace(CharAt(q))
  THEN [err |-> NoToken, pos |-> q + 1, end |-> Off(q) + 1]
  ELSE [err |-> NoToken, pos |-> q, end |-> Off(q)]

\* the match of scan_escape on the character at p1
EscapeAt(p1) ==
  IF AtEnd(p1)
  THEN [err |-> Err("UnexpectedEof", Off(p1), Off(p1)), pos |-> p1, end |-> 0]
  ELSE IF is_ascii_hexdigit(CharAt(p1))
  THEN EscapeLoop(p1 + 1, 1, Off(p1) + 1)
  ELSE [err |-> NoToken, pos |-> p1 + 1, end |-> Off(p1) + len_utf8(CharAt(p1))]

\* p is the cursor at the call; the first next() is meant to consume `\`
scan_escape(p) == EscapeAt(Adv(p))

RECURSIVE IdentLoop(_, _)
\* `self.scan_escape()?;` inside the loop, e being what scan_escape returned
IdentLoopEscaped(e, end) ==
  IF e.err # NoToken THEN [err |-> e.err, pos |-> e.pos, end |-> end]
  ELSE IdentLoop(e.pos, end)

IdentLoop(q, end) ==
  IF AtEnd(q) THEN [err |-> NoToken, pos |-> q, end |-> end]
  ELSE IF is_ident_char(CharAt(q)) THEN IdentLoop(q + 1, end)
  ELSE IF CharAt(q) = "\\" THEN IdentLoopEscaped(scan_escape(q), end)
  ELSE [err |-> NoToken, pos |-> q, end |-> Off(q)]

\* the end of scan_ident_sequence, l being what the loop returned
IdentToken(st, start, l) ==
  LET st1 == [st EXCEPT !.pos = l.pos]
  IN  IF l.err # NoToken THEN [res |-> l.err, st |-> st1]
      ELSE IF ~(start < l.end) THEN [res |-> Panic("assert"), st |-> st1]
      ELSE IF handle_escape_fails(start, l.end)
      THEN [res |-> Err("InvalidEscape", start, l.end), st |-> st1]
      ELSE [res |-> Tok("Ident", start, l.end, start, l.end), st |-> st1]

\* the tail of scan_ident_sequence once start and the first end are known
IdentFinish(st, start, p, end0) == IdentToken(st, start, IdentLoop(p, end0))

\* `end = self.scan_escape()?;` for a leading escape
IdentEscaped(st, start, e) ==
  IF e.err # NoToken THEN [res |-> e.err, st |-> [st EXCEPT !.pos = e.pos]]
  ELSE IdentFinish(st, start, e.pos, e.end)

scan_ident_sequence(st) ==
  LET p == st.pos
      c == CharAt(p)
  IN  IF ~AtEnd(p) /\ c = "-"
      THEN IF AtEnd(p + 1)
           THEN [res |-> Err("UnexpectedEof", Off(p + 1), Off(p + 1)),
                 st |-> [st EXCEPT !.pos = p + 1]]
           ELSE IF debug_build /\ ~is_start_of_ident(CharAt(p + 1))
           THEN [res |-> Panic("debug_assert"), st |-> [st EXCEPT !.pos = p + 2]]
           ELSE IdentFinish(st, Off(p), p + 2,
                            Off(p + 1) + len_utf8(CharAt(p + 1)))
      ELSE IF ~AtEnd(p) /\ (is_ascii_alphabetic(c) \/ c = "_" \/ ~is_ascii(c))
      THEN IdentFinish(st, Off(p), p + 1, Off(p) + len_utf8(c))
      ELSE IF ~AtEnd(p) /\ c = "\\"
      THEN IdentEscaped(st, Off(p), scan_escape(p))
      ELSE [res |-> build_eof_error(st), st |-> st]

(***************************************************************************)
(* Numbers.                                                                *)
(***************************************************************************)
RECURSIVE DigitRun(_, _)
DigitRun(s, i) ==
  IF i <= Len(s) /\ s[i] \in Digits THEN DigitRun(s, i + 1) ELSE i

\* str::parse::<f64> on a slice made of signs, digits, `.` and `e`/`E`:
\* Sign? (Digit+ | Digit+ '.' Digit* | Digit* '.' Digit+) ([eE] Sign? Digit+)?
parses_as_f64(s) ==
  LET i0 == IF Len(s) >= 1 /\ s[1] \in {"+", "-"} THEN 2 ELSE 1
      i1 == DigitRun(s, i0)
      dot == i1 <= Len(s) /\ s[i1] = "."
      i2 == IF dot THEN DigitRun(s, i1 + 1) ELSE i1
      digits == (i1 - i0) + (IF dot THEN i2 - (i1 + 1) ELSE 0)
      hasE == i2 <= Len(s) /\ s[i2] \in {"e", "E"}
      i3 == IF hasE /\ i2 + 1 <= Len(s) /\ s[i2 + 1] \in {"+", "-"}
            THEN i2 + 2 ELSE i2 + 1
      i4 == IF hasE THEN DigitRun(s, i3) ELSE i2
  IN  /\ digits >= 1
      /\ hasE => i4 > i3
      /\ i4 = Len(s) + 1

\* `while let Some((i, c)) = peek { if digit { next } else { end = i; break } }`
DigitsLoop(p, end) ==
  LET q == RunEnd(p, Digits)
  IN  [pos |-> q, end |-> IF AtEnd(q) THEN end ELSE Off(q)]

NumberMantissa(p, c) ==
  LET end0 == IF is_ascii_digit(c) THEN Off(p) + 1 ELSE 0
      signed_dot == c \in {"+", "-"} /\ CharAt(p + 1) = "."
      is_start_with_dot == c = "." \/ signed_dot
      p1 == IF signed_dot THEN p + 2 ELSE p + 1
  IN  IF is_start_with_dot THEN DigitsLoop(p1, end0)
      ELSE LET a == DigitsLoop(p1, end0)
           IN  IF CharAt(a.pos) = "." THEN DigitsLoop(a.pos + 1, a.end) ELSE a

NumberExponent(m) ==
  LET q == m.pos IN
  IF /\ HasTwo(q)
     /\ CharAt(q) \in {"e", "E"}
     /\ (CharAt(q + 1) \in {"-", "+"} \/ is_ascii_digit(CharAt(q + 1)))
  THEN DigitsLoop(IF CharAt(q + 1) \in {"-", "+"} THEN q + 2 ELSE q + 1, m.end)
  ELSE m

\* the end of scan_number, x being the cursor and `end` after the loops
NumberToken(st, start, x) ==
  LET st1 == [st EXCEPT !.pos = x.pos]
  IN  IF ~(start < x.end) THEN [res |-> Panic("assert"), st |-> st1]
      ELSE IF ~parses_as_f64(CharsOf(start, x.end))
      THEN [res |-> Err("InvalidNumber", start, x.end), st |-> st1]
      ELSE [res |-> Tok("Number", start, x.end, start, x.end), st |-> st1]

scan_number(st) ==
  LET p == st.pos
      c == CharAt(p)
  IN  IF AtEnd(p) THEN [res |-> build_eof_error(st), st |-> st]
      ELSE IF ~(is_ascii_digit(c) \/ c \in {"+", "-", "."})
      THEN [res |-> Err("InvalidNumber", Off(p), Off(p) + len_utf8(c)),
            st |-> [st EXCEPT !.pos = p + 1]]
      ELSE NumberToken(st, Off(p), NumberExponent(NumberMantissa(p, c)))

\* the token of a number and its unit u, as scan_ident_sequence returned it
DimensionToken(value, u) ==
  IF ~IsOk(u.res) THEN u
  ELSE [res |-> [Tok("Dimension", value.start, u.res.end, value.rs, value.re)
                   EXCEPT !.us = u.res.rs, !.ue = u.res.re],
        st |-> u.st]

scan_dimension(st, value) == DimensionToken(value, scan_ident_sequence(st))

\* scan_percentage with a span that ends one byte past the `%`
scan_percentage_one_past(st, value) ==
  IF AtEnd(st.pos) THEN [res |-> build_eof_error(st), st |-> st]
  ELSE [res |-> Tok("Percentage", value.start, Off(st.pos) + 2, value.rs, value.re),
        st |-> [st EXCEPT !.pos = st.pos + 1]]

scan_percentage(st, value) ==
  IF AtEnd(st.pos) THEN [res |-> build_eof_error(st), st |-> st]
  ELSE [res |-> Tok("Percentage", value.start, Off(st.pos) + 1, value.rs, value.re),
        st |-> [st EXCEPT !.pos = st.pos + 1]]

scan_dimension_or_percentage(st, number) ==
  LET p == st.pos IN
  IF HasTwo(p) /\ CharAt(p) = "-" /\ is_start_of_ident(CharAt(p + 1))
  THEN scan_dimension(st, number)
  ELSE IF ~AtEnd(p) /\ is_start_of_ident(CharAt(p)) THEN scan_dimension(st, number)
  ELSE IF CharAt(p) = "%" THEN scan_percentage(st, number)
  ELSE [res |-> number, st |-> st]

\* `let number = self.scan_number()?; self.scan_dimension_or_percentage(number)`
NumberThenUnit(n) ==
  IF ~IsOk(n.res) THEN n ELSE scan_dimension_or_percentage(n.st, n.res)

scan_numeric(st) == NumberThenUnit(scan_number(st))

(***************************************************************************)
(* Strings, string templates and URLs.                                     *)
(***************************************************************************)
\* p is the cursor after the `#` or `@`
is_start_of_interpolation_in_str_template(p) ==
  IF syntax = "Css" THEN FALSE
  ELSE IF syntax \in {"Scss", "Sass"} THEN CharAt(p) = "{"
  ELSE HasTwo(p) /\ CharAt(p) = "{" /\ is_start_of_ident(CharAt(p + 1))

is_start_of_interpolation_in_url_template(p) ==
  IF syntax \in {"Css", "Less"} THEN FALSE ELSE CharAt(p) = "{"

\* The loop shared by the four scanners of quoted and URL text: it takes
\* characters from q on until a line feed, a failed escape, the terminator,
\* the start of an interpolation or the end of input.  `at` is the position
\* of the deciding character and `pos` the cursor afterwards.
RECURSIVE TextLoop(_, _, _)
\* `self.scan_escape()?;` inside the loop, e being what scan_escape returned
TextLoopEscaped(q, e, term, in_url) ==
  IF e.err # NoToken THEN [ev |-> "escape", at |-> q, pos |-> e.pos, err |-> e.err]
  ELSE TextLoop(e.pos, term, in_url)

TextLoop(q, term, in_url) ==
  IF AtEnd(q) THEN [ev |-> "eof", at |-> q, pos |-> q, err |-> NoToken]
  ELSE LET c == CharAt(q) IN
    IF c = "\n" THEN [ev |-> "linebreak", at |-> q, pos |-> q + 1, err |-> NoToken]
    ELSE IF c = "\\" THEN TextLoopEscaped(q, scan_escape(q + 1), term, in_url)
    ELSE IF c = term THEN [ev |-> "term", at |-> q, pos |-> q + 1, err |-> NoToken]
    ELSE IF in_url /\ c = "#" /\ is_start_of_interpolation_in_url_template(q + 1)
    THEN [ev |-> "interpolation", at |-> q, pos |-> q + 1, err |-> NoToken]
    ELSE IF ~in_url /\ c \in {"#", "@"}
            /\ is_start_of_interpolation_in_str_template(q + 1)
    THEN [ev |-> "interpolation", at |-> q, pos |-> q + 1, err |-> NoToken]
    ELSE TextLoop(q + 1, term, in_url)

\* the error exits the four scanners share
TextError(l, st) ==
  IF l.ev = "eof" THEN Err("UnexpectedEof", Off(l.pos), Off(l.pos))
  ELSE IF l.ev = "linebreak" THEN Err("UnexpectedLinebreak", Off(l.at), Off(l.at) + 1)
  ELSE l.err

Template(kind, s, e, rs, re, tail) == [Tok(kind, s, e, rs, re) EXCEPT !.tail = tail]

\* Ok(token) unless handle_escape of [vs, ve) fails
Escaped(tok, vs, ve) ==
  IF handle_escape_fails(vs, ve) THEN Err("InvalidEscape", tok.start, tok.end) ELSE tok

SetTop(template, phase) ==
  IF template = <<>> THEN template
  ELSE [template EXCEPT ![Len(template)] = <<phase, @[2]>>]

Pop(template) ==
  IF template = <<>> THEN template ELSE SubSeq(template, 1, Len(template) - 1)

\* a raw slice that starts at the opening quote
first_fragment_raw_with_quote(start) == start

\* the raw slice of the first fragment of an interpolated string begins
\* after the opening quote: get_unchecked(start + 1..end)
first_fragment_raw_start(start) == start + 1

\* the exits of scan_string_or_template, l being where its loop stopped
StringOrTemplate(st, l) ==
  LET start == Off(st.pos)
      quote == CharAt(st.pos)
      st1 == [st EXCEPT !.pos = l.pos]
  IN  IF l.ev = "term"
      THEN LET end == Off(l.at) + len_utf8(quote)
           IN  IF ~(start + 1 < end) THEN [res |-> Panic("assert"), st |-> st1]
               ELSE [res |-> Escaped(Tok("Str", start, end, start, end),
                                     start + 1, end - 1),
                     st |-> st1]
      ELSE IF l.ev = "interpolation"
      THEN LET end == Off(l.at)
           IN  [res |-> Escaped(Template("StrTemplate", start, end,
                                         first_fragment_raw_start(start), end, FALSE),
                                first_fragment_raw_start(start), end),
                st |-> [st1 EXCEPT !.template = Append(@, <<"Interpolation", quote>>)]]
      ELSE [res |-> TextError(l, st1), st |-> st1]

scan_string_or_template(st) ==
  StringOrTemplate(st, TextLoop(st.pos + 1, CharAt(st.pos), FALSE))

\* the exits of scan_string_template, l being where its loop stopped
StringTemplate(st, l) ==
  LET start == current_offset(st)
      quote == st.template[Len(st.template)][2]
      st1 == [st EXCEPT !.pos = l.pos]
  IN  IF debug_build /\ quote \notin {"'", "\""}
      THEN [res |-> Panic("debug_assert"), st |-> st]
      ELSE IF l.ev = "term"
      THEN LET end == Off(l.at) + len_utf8(quote)
           IN  [res |-> Escaped(Template("StrTemplate", start, end, start, Off(l.at), TRUE),
                                start, Off(l.at)),
                st |-> [st1 EXCEPT !.template = Pop(@)]]
      ELSE IF l.ev = "interpolation"
      THEN LET end == Off(l.at)
           IN  [res |-> Escaped(Template("StrTemplate", start, end, start, end, FALSE),
                                start, end),
                st |-> [st1 EXCEPT !.template = SetTop(@, "Interpolation")]]
      ELSE [res |-> TextError(l, st1), st |-> st1]

scan_string_template(st) ==
  StringTemplate(st, TextLoop(st.pos, st.template[Len(st.template)][2], FALSE))

\* the exits of scan_url_raw_or_template, l being where its loop stopped
UrlRawOrTemplate(st, l) ==
  LET start == current_offset(st)
      st1 == [st EXCEPT !.pos = l.pos]
  IN  IF l.ev = "term"
      THEN LET end == Off(l.at)
           IN  [res |-> Escaped(Tok("UrlRaw", start, end, start, end), start, end),
                st |-> [st1 EXCEPT !.url = "None"]]
      ELSE IF l.ev = "interpolation"
      THEN LET end == Off(l.at)
           IN  [res |-> Escaped(Template("UrlTemplate", start, end, start, end, FALSE),
                                start, end),
                st |-> [st1 EXCEPT !.url = "Template",
                                   !.template = Append(@, <<"Interpolation", ")">>)]]
      ELSE [res |-> TextError(l, st1), st |-> st1]

scan_url_raw_or_template(st) == UrlRawOrTemplate(st, TextLoop(st.pos, ")", TRUE))

\* the exits of scan_url_template, l being where its loop stopped
UrlTemplateToken(st, l) ==
  LET start == current_offset(st)
      st1 == [st EXCEPT !.pos = l.pos]
  IN  IF l.ev = "term"
      THEN LET end == Off(l.at)
           IN  [res |-> Escaped(Template("UrlTemplate", start, end, start, end, TRUE),
                                start, end),
                st |-> [st1 EXCEPT !.template = Pop(@), !.url = "None"]]
      ELSE IF l.ev = "interpolation"
      THEN LET end == Off(l.at)
           IN  [res |-> Escaped(Template("UrlTemplate", start, end, start, end, FALSE),
                                start, end),
                st |-> [st1 EXCEPT !.template = SetTop(@, "Interpolation")]]
      ELSE [res |-> TextError(l, st1), st |-> st1]

\* scan_url_template that leaves the url flag set after the closing `)`
scan_url_template_keeps_url(st) ==
  LET start == current_offset(st)
      l == TextLoop(st.pos, ")", TRUE)
      st1 == [st EXCEPT !.pos = l.pos]
  IN  IF l.ev = "term"
      THEN LET end == Off(l.at)
           IN  [res |-> Escaped(Template("UrlTemplate", start, end, start, end, TRUE),
                                start, end),
                st |-> [st1 EXCEPT !.template = Pop(@)]]
      ELSE IF l.ev = "interpolation"
      THEN LET end == Off(l.at)
           IN  [res |-> Escaped(Template("UrlTemplate", start, end, start, end, FALSE),
                                start, end),
                st |-> [st1 EXCEPT !.template = SetTop(@, "Interpolation")]]
      ELSE [res |-> TextError(l, st1), st |-> st1]

scan_url_template(st) == UrlTemplateToken(st, TextLoop(st.pos, ")", TRUE))

\* scan_url that does not skip the whitespace after `(`
scan_url_keeps_blanks(st, ident) ==
  LET i == Off(st.pos)
      st1 == [st EXCEPT !.pos = st.pos + 1]
  IN  [res |-> Tok("UrlPrefix", ident.start, i + 1, ident.rs, ident.re),
       st |-> [st1 EXCEPT !.url = "Ambiguous"]]

\* called with `(` next, after the ident `url`
scan_url(st, ident) ==
  LET i == Off(st.pos)
      st1 == skip_ws([st EXCEPT !.pos = st.pos + 1])
  IN  [res |-> Tok("UrlPrefix", ident.start, i + 1, ident.rs, ident.re),
       st |-> [st1 EXCEPT !.url = "Ambiguous"]]

UrlWord == <<117, 114, 108>>

\* r is what scan_ident_sequence returned
IdentOrUrl(r) ==
  IF ~IsOk(r.res) THEN r
  ELSE IF /\ CharAt(r.st.pos) = "("
          /\ eq_ignore_ascii_case(
               handle_escape(CharsOf(r.res.rs, r.res.re)).value, UrlWord)
  THEN scan_url(r.st, r.res)
  ELSE r

scan_ident_or_url(st) == IdentOrUrl(scan_ident_sequence(st))

(***************************************************************************)
(* Hashes, variables, at-keywords and punctuation.                         *)
(***************************************************************************)
is_hash_char(c) == is_ident_char(c) \/ c = "\\"

RECURSIVE HashLoop(_)
HashLoop(q) ==
  IF AtEnd(q) \/ ~is_hash_char(CharAt(q)) THEN q ELSE HashLoop(q + 1)

\* called with `#` next
scan_hash(st) ==
  LET p == st.pos
      start == Off(p)
  IN  IF AtEnd(p) THEN [res |-> build_eof_error(st), st |-> st]
      ELSE IF AtEnd(p + 1)
      THEN [res |-> Err("UnexpectedEof", Off(p + 1), Off(p + 1)),
            st |-> [st EXCEPT !.pos = p + 1]]
      ELSE IF ~is_hash_char(CharAt(p + 1))
      THEN [res |-> Err("InvalidHash", Off(p + 1), Off(p + 1) + len_utf8(CharAt(p))),
            st |-> [st EXCEPT !.pos = p + 2]]
      ELSE LET q == HashLoop(p + 2)
               end == IF AtEnd(q) THEN Off(p + 1) + len_utf8(CharAt(p + 1)) ELSE Off(q)
               st1 == [st EXCEPT !.pos = q]
           IN  IF ~(end > start + 1) THEN [res |-> Panic("assert"), st |-> st1]
               ELSE [res |-> Escaped(Tok("Hash", start, end, start, end), start + 1, end),
                     st |-> st1]

\* the token of a `$` or `@` and the ident r after it
PrefixedToken(st, kind, r) ==
  IF ~IsOk(r.res) THEN r
  ELSE [res |-> Tok(kind, Off(st.pos), r.res.end, r.res.rs, r.res.re), st |-> r.st]

\* `$` or `@` followed by an ident sequence
scan_prefixed_ident(st, kind) ==
  IF AtEnd(st.pos) THEN [res |-> build_eof_error(st), st |-> st]
  ELSE PrefixedToken(st, kind, scan_ident_sequence([st EXCEPT !.pos = st.pos + 1]))

scan_dollar_var(st) == scan_prefixed_ident(st, "DollarVar")

scan_at_keyword(st) == scan_prefixed_ident(st, "AtKeyword")

\* the end of scan_at_lbrace_var, r being the ident after `@{`
LessVarToken(st, r) ==
  LET q == r.st.pos
  IN  IF ~IsOk(r.res) THEN r
      ELSE IF AtEnd(q) THEN [res |-> Err("UnexpectedEof", Off(q), Off(q)), st |-> r.st]
      ELSE IF CharAt(q) = "}"
      THEN [res |-> Tok("AtLBraceVar", Off(st.pos), Off(q) + 1, r.res.rs, r.res.re),
            st |-> [r.st EXCEPT !.pos = q + 1]]
      ELSE [res |-> Err("ExpectRightBraceForLessVar", Off(q), Off(q) + len_utf8(CharAt(q))),
            st |-> [r.st EXCEPT !.pos = q + 1]]

\* called with `@` `{` next
scan_at_lbrace_var(st) ==
  LessVarToken(st, scan_ident_sequence([st EXCEPT !.pos = st.pos + 2]))

\* the two-character punctuators; "" when the pair is none
Punc2(a, b) ==
  IF a = ":" /\ b = ":" THEN "ColonColon"
  ELSE IF a = "|" /\ b = "|" THEN "BarBar"
  ELSE IF a = "~" /\ b = "=" THEN "TildeEqual"
  ELSE IF a = "|" /\ b = "=" THEN "BarEqual"
  ELSE IF a = "^" /\ b = "=" THEN "CaretEqual"
  ELSE IF a = "$" /\ b = "=" THEN "DollarEqual"
  ELSE IF a = "*" /\ b = "=" THEN "AsteriskEqual"
  ELSE IF a = "#" /\ b = "{" /\ syntax \in {"Scss", "Sass"} THEN "HashLBrace"
  ELSE IF a = "=" /\ b = "=" /\ syntax \in {"Scss", "Sass"} THEN "EqualEqual"
  ELSE IF a = "!" /\ b = "=" /\ syntax \in {"Scss", "Sass"} THEN "ExclamationEqual"
  ELSE IF a = ">" /\ b = "=" THEN "GreaterThanEqual"
  ELSE IF a = "<" /\ b = "=" THEN "LessThanEqual"
  ELSE IF a = "+" /\ b = "_" /\ syntax = "Less" THEN "PlusUnderscore"
  ELSE ""

\* the one-character punctuators; "" when the character is none
Punc1(c) ==
  IF c = ":" THEN "Colon"
  ELSE IF c = "(" THEN "LParen"
  ELSE IF c = ")" THEN "RParen"
  ELSE IF c = "[" THEN "LBracket"
  ELSE IF c = "]" THEN "RBracket"
  ELSE IF c = "{" THEN "LBrace"
  ELSE IF c = "}" THEN "RBrace"
  ELSE IF c = "/" THEN "Solidus"
  ELSE IF c = "," THEN "Comma"
  ELSE IF c = ";" THEN "Semicolon"
  ELSE IF c = "." THEN "Dot"
  ELSE IF c = ">" THEN "GreaterThan"
  ELSE IF c = "<" THEN "LessThan"
  ELSE IF c = "+" THEN "Plus"
  ELSE IF c = "-" THEN "Minus"
  ELSE IF c = "~" THEN "Tilde"
  ELSE IF c = "&" THEN "Ampersand"
  ELSE IF c = "*" THEN "Asterisk"
  ELSE IF c = "|" THEN "Bar"
  ELSE IF c = "=" THEN "Equal"
  ELSE IF c = "%" THEN "Percent"
  ELSE IF c = "#" THEN "NumberSign"
  ELSE ""

\* the template stack after a `}` was consumed as a punctuator
\* a `}` that leaves the frame alone
RBraceKeeps(template) == template

RBraceFlip(template) == SetTop(template, "Static")

\* res is NoToken for None; the character is consumed also then
scan_punc(st) ==
  LET p == st.pos
      two == IF HasTwo(p) THEN Punc2(CharAt(p), CharAt(p + 1)) ELSE ""
      one == Punc1(CharAt(p))
  IN  IF two # ""
      THEN [res |-> Tok(two, Off(p), Off(p) + 2, 0, 0), st |-> [st EXCEPT !.pos = p + 2]]
      ELSE IF one = "" THEN [res |-> NoToken, st |-> [st EXCEPT !.pos = Adv(p)]]
      ELSE [res |-> Tok(one, Off(p), Off(p) + 1, 0, 0),
            st |-> [st EXCEPT !.pos = p + 1,
                              !.template = IF one = "RBrace" THEN RBraceFlip(@) ELSE @]]

(***************************************************************************)
(* bump and peek.                                                          *)
(***************************************************************************)
TopIs(st, phase) ==
  st.template # <<>> /\ st.template[Len(st.template)][1] = phase

\* `None => Err(UnknownToken)` for what scan_punc returned
PuncOrUnknown(st, r) ==
  IF r.res = NoToken
  THEN [res |-> Err("UnknownToken", Off(st.pos),
                    Off(st.pos) + len_utf8(CharAt(st.pos))),
        st |-> r.st]
  ELSE r

\* the dispatch of bump on the next two characters, after the skipping
scan_token(st) ==
  LET p == st.pos
      two == HasTwo(p)
      a == CharAt(p)
      b == CharAt(p + 1)
  IN  IF two /\ a \in {"'", "\""} THEN scan_string_or_template(st)
      ELSE IF two /\ a \in {"-", "+"} /\ (is_ascii_digit(b) \/ b = ".")
      THEN scan_numeric(st)
      ELSE IF two /\ a = "-" /\ is_start_of_ident(b) THEN scan_ident_or_url(st)
      ELSE IF two /\ a = "." /\ is_ascii_digit(b) THEN scan_numeric(st)
      ELSE IF two /\ a = "#" /\ is_hash_char(b) THEN scan_hash(st)
      ELSE IF two /\ a = "@" /\ is_start_of_ident(b) THEN scan_at_keyword(st)
      ELSE IF two /\ a = "$" /\ syntax \in {"Scss", "Sass"} /\ is_start_of_ident(b)
      THEN scan_dollar_var(st)
      ELSE IF two /\ a = "@" /\ b = "{" /\ syntax = "Less" THEN scan_at_lbrace_var(st)
      ELSE IF AtEnd(p)
      THEN [res |-> Tok("Eof", Off(p), Off(p), 0, 0), st |-> st]
      ELSE IF is_ascii_digit(a) THEN scan_numeric(st)
      ELSE IF is_start_of_ident(a) THEN scan_ident_or_url(st)
      ELSE PuncOrUnknown(st, scan_punc(st))

\* what a scanner returned, with the comments that were skipped before it
Returned(r, cm) == [res |-> r.res, st |-> r.st, cm |-> cm]

\* sk is what skip_ws_or_comment returned
AfterSkip(sk) ==
  IF sk.indent # NoToken THEN [res |-> sk.indent, st |-> sk.st, cm |-> sk.cm]
  ELSE Returned(scan_token(sk.st), sk.cm)

\* the body of bump on the tokenizer state; cm is what it pushes to the
\* comments sink when one is attached
next_token(st) ==
  IF TopIs(st, "Static")
  THEN Returned(IF st.url = "Template" THEN scan_url_template(st)
                ELSE scan_string_template(st), <<>>)
  ELSE IF st.url = "Ambiguous" THEN Returned(scan_url_raw_or_template(st), <<>>)
  ELSE AfterSkip(skip_ws_or_comment(st))

\* Option<&mut Vec<Comment>>
NoSink == [some |-> FALSE, items |-> <<>>]

EmptySink == [some |-> TRUE, items |-> <<>>]

\* `if let Some(comments) = &mut self.comments { comments.push(..) }`
push_comments(sink, cm) ==
  IF sink.some THEN [sink EXCEPT !.items = @ \o cm] ELSE sink

\* what bump returns and leaves behind, r being the body's result
Pushed(self, r) ==
  [res |-> r.res,
   self |-> [state |-> r.st, comments |-> push_comments(self.comments, r.cm)]]

\* self is the tokenizer: its state and its comments sink
bump(self) == Pushed(self, next_token(self.state))

\* self.comments.take(): the sink keeps its items but is not attached
take(sink) == [sink EXCEPT !.some = FALSE]

\* `self.state = state; self.comments = comments;` after the speculative bump b;
\* a panic inside it unwinds before the state is restored
Restored(self, b) ==
  IF b.res.t = "Panic" THEN [res |-> b.res, self |-> b.self]
  ELSE [res |-> b.res, self |-> self]

\* peek that keeps the state of the speculative bump
peek_without_restore(self) == bump(self)

peek(self) ==
  Restored(self, bump([state |-> self.state, comments |-> take(self.comments)]))

(***************************************************************************)
(* The inputs.                                                             *)
(***************************************************************************)
Syntaxes == {"Css", "Scss", "Sass", "Less"}

Strings(A, n) == UNION {[1..k -> A] : k \in 0..n}

NumberChars == {"1", "+", "-", ".", "e", "a", " "}

CommentChars == {"/", "*", "\n", " ", "a", "\r"}

StringChars == {"\"", "#", "{", "}", "a", "\\", "@"}

IdentChars == {"a", "\\", "<e9>", "-", "4", " ", "%"}

Short ==
  Strings(NumberChars, MaxLen) \cup Strings(CommentChars, MaxLen)
    \cup Strings(StringChars, MaxLen) \cup Strings(IdentChars, MaxLen)

\* quoted strings with one interpolation (or two), and what may follow
FragChars == {"a", " "}

Frags == Strings(FragChars, MaxFrag)

Bodies ==
  {<<"b">>, <<" ", "b", " ">>, <<"{", "}">>, <<"#", "{", "b", "}">>,
   <<"$", "b">>, <<"/", "*", "*", "/", "b">>, <<"'", "b", "'">>}

Rests == Frags \cup {<<"#", "{", "b", "}", "c">>, <<"a", "@", "{", "b", "}">>}

Tails == {<<>>, <<"x">>}

StrScenarios ==
  {<<q>> \o x \o <<m, "{">> \o y \o <<"}">> \o z \o <<q>> \o t :
     q \in {"\"", "'"}, m \in {"#", "@"}, x \in Frags, y \in Bodies,
     z \in Rests, t \in Tails}

\* url( ... ) with and without an interpolation
UrlWords == {<<"u", "r", "l">>, <<"U", "r", "L">>}

Blanks == {<<>>, <<" ">>}

UrlFrags == {<<>>} \cup {<<c>> : c \in {"a", "/"}}

UrlBodies == {<<"y">>, <<"{", "}">>, <<"u", "r", "l", "(", "a", ")">>, <<"\"", "#", "{", "b", "}", "\"">>}

UrlScenarios ==
  {w \o <<"(">> \o b1 \o x \o <<"#", "{">> \o y \o <<"}">> \o z \o b2 \o <<")">> \o t :
     w \in UrlWords, b1 \in Blanks, x \in UrlFrags, y \in UrlBodies,
     z \in UrlFrags, b2 \in Blanks, t \in Tails}
  \cup
  {w \o <<"(">> \o b1 \o x \o z \o b2 \o <<")">> \o t :
     w \in UrlWords, b1 \in Blanks, x \in UrlFrags, z \in Frags,
     b2 \in Blanks, t \in Tails}

\* "a#{b}c"
Scenario6 == <<"\"", "a", "#", "{", "b", "}", "c", "\"">>

\* url( http://x/#{y}.png )
Scenario8 ==
  <<"u", "r", "l", "(", " ", "h", "t", "t", "p", ":", "/", "/", "x", "/",
    "#", "{", "y", "}", ".", "p", "n", "g", " ", ")">>

\* "a@{b}c"
Scenario7 == <<"\"", "a", "@", "{", "b", "}", "c", "\"">>

\* input that ends inside an interpolation: "#{" and url(a#{'
Unterminated ==
  {<<"\"", "#", "{", "\"">>, <<"u", "r", "l", "(", "a", "#", "{", "'">>}

\* x, then a line indented by two, a second one and a line indented by zero
Scenario12 == <<"x", "\n", " ", " ", "a", "\n", " ", " ", "b", "\n", "c">>

\* Sass lines: a line break, an indentation, and comments before the token
Indents == {<<>>, <<" ">>, <<" ", " ">>}

Gaps ==
  {<<>>, <<"/", "*", "*", "/">>, <<"/", "*", "*", "/", " ">>,
   <<"/", "/", "c", "\n">>, <<"/", "*", "*", "/", "\n">>}

Lines ==
  {<<"a", "\n">> \o i \o g \o <<"b">> \o t :
     i \in Indents, g \in Gaps, t \in {<<>>, <<"\n", " ", "c">>, <<" ">>}}

\* a line that ends with a line comment, and the next line
CommentedLines ==
  {<<"a">> \o g \o <<"/", "/", "c", "\n">> \o i \o <<"b">> :
     g \in {<<>>, <<" ">>}, i \in Indents}

\* quoted strings with escapes and line feeds: the end of the Str token, or
\* the offset of the line feed that is no part of an escape (lf), and what
\* may follow the string
StrEscapeTable ==
  {[text |-> <<"\"", "\\", "\"", "\"">>, end |-> 4, lf |-> -1],
   [text |-> <<"\"", "a", "\\", "\\", "\"">>, end |-> 5, lf |-> -1],
   [text |-> <<"'", "\\", "'", "'">>, end |-> 4, lf |-> -1],
   [text |-> <<"\"", "\\", "\"", "a", "\"">>, end |-> 5, lf |-> -1],
   [text |-> <<"\"", "\\", "a", "\"">>, end |-> 4, lf |-> -1],
   [text |-> <<"\"", "\\", "a", "b", "\"">>, end |-> 5, lf |-> -1],
   [text |-> <<"\"", "\\", "4", "1", " ", "b", "\"">>, end |-> 7, lf |-> -1],
   [text |-> <<"\"", "\\", "4", "\"">>, end |-> 4, lf |-> -1],
   [text |-> <<"'", "a", "\"", "'">>, end |-> 4, lf |-> -1],
   [text |-> <<"\"", "a", "\"">>, end |-> 3, lf |-> -1],
   [text |-> <<"\"", "a", "\n", "b", "\"">>, end |-> -1, lf |-> 2],
   [text |-> <<"\"", "\n", "\"">>, end |-> -1, lf |-> 1],
   [text |-> <<"'", "\\", "'", "\n", "'">>, end |-> -1, lf |-> 3]}

StrEscapes == {e.text \o t : e \in StrEscapeTable, t \in {<<>>, <<" ", "a">>, <<";">>}}

\* a `#` and what follows it: names, escapes, `{`, a blank, the end of input
HashSources ==
  {<<"#">> \o n \o t :
     n \in {<<>>, <<"a", "b">>, <<"\\", "4">>, <<"\\", "4", "1", " ", "b">>, <<"\\", ";">>,
            <<"\\">>, <<"-">>, <<"_", "1">>, <<"<e9>">>, <<"{", "a", "}">>, <<"1", "a">>},
     t \in {<<>>, <<";">>, <<" ", "a">>}}

Sources ==
  Short \cup StrScenarios \cup UrlScenarios \cup Unterminated \cup Lines
    \cup CommentedLines \cup StrEscapes \cup HashSources \cup {Scenario6, Scenario7, Scenario8, Scenario12}

InitialState == [pos |-> 0, indent_size |-> 0, template |-> <<>>, url |-> "None"]

(***************************************************************************)
(* The state machine: a caller that peeks and bumps until Eof, an error    *)
(* or a panic.                                                             *)
(***************************************************************************)
Init ==
  /\ source \in Sources
  /\ syntax \in Syntaxes
  /\ debug_build \in BOOLEAN
  /\ state = InitialState
  /\ comments \in IF source \in Short THEN {NoSink, EmptySink} ELSE {EmptySink}
  /\ tokens = <<>>
  /\ result = NoToken
  /\ lastOp = "new"

Self == [state |-> state, comments |-> comments]

Finished ==
  \/ result.t = "Panic"
  \/ /\ tokens # <<>>
     /\ LET last == tokens[Len(tokens)].tok IN last.t # "Ok" \/ last.kind = "Eof"

\* the call returns r
Returns(r) ==
  /\ state' = r.self.state
  /\ comments' = r.self.comments
  /\ result' = r.res

Bump ==
  /\ ~Finished
  /\ Returns(bump(Self))
  /\ tokens' = Append(tokens, [tok |-> result', st |-> state'])
  /\ lastOp' = "bump"
  /\ UNCHANGED <<source, syntax, debug_build>>

Peek ==
  /\ result.t # "Panic"
  /\ Returns(peek(Self))
  /\ lastOp' = "peek"
  /\ UNCHANGED <<source, syntax, debug_build, tokens>>

Next == Bump \/ Peek

Spec == Init /\ [][Next]_vars

(***************************************************************************)
(* Reading the history of bumps.                                           *)
(***************************************************************************)
NTok == Len(tokens)

T(i) == tokens[i].tok

\* the tokenizer state before and after the i-th bump
Pre(i) == IF i = 1 THEN InitialState ELSE tokens[i - 1].st

Post(i) == tokens[i].st

Depth(st) == Len(st.template)

\* the character at a byte offset (NoChar when it is none)
CharAtOff(o) ==
  LET ps == {p \in 0..NChars : Off(p) = o}
  IN  IF ps = {} THEN NoChar ELSE CharAt(CHOOSE p \in ps : TRUE)

\* every bump so far returned a token and the last one returned Eof
ReachedEof ==
  /\ result.t # "Panic"
  /\ NTok > 0
  /\ \A i \in 1..NTok : IsOk(T(i))
  /\ T(NTok).kind = "Eof"

Kinds == [i \in 1..NTok |-> T(i).kind]

(***************************************************************************)
(* C1: peek() returns exactly what an immediately following bump()         *)
(* returns, two consecutive peek() calls return equal results, and a       *)
(* peek() that returns (a token or an error) leaves the cursor,            *)
(* indent_size, the template stack and the url flag unchanged.             *)
(***************************************************************************)
C1_PeekStep ==
  /\ (lastOp' = "peek" /\ result'.t # "Panic") => state' = state
  /\ (lastOp = "peek" /\ lastOp' \in {"peek", "bump"}) => result' = result

C1_PeekStable == [][C1_PeekStep]_vars

\* a peek returned an error in the middle of an interpolated URL
C1_Witness ==
  /\ lastOp = "peek"
  /\ result.t = "Err"
  /\ state.template # <<>>
  /\ state.url = "Template"
  /\ state.pos > 0

(***************************************************************************)
(* C2: after any interleaving of peek() and bump() the sink holds the      *)
(* comments before the current offset once each and in increasing source   *)
(* order, peek() appends nothing, and no token returned by bump() lies     *)
(* inside a comment.                                                       *)
(***************************************************************************)
C2_SinkState ==
  LET cs == comments.items IN
  /\ \A i \in 1..Len(cs) : cs[i].start < cs[i].end /\ cs[i].end <= current_offset(state)
  /\ \A i \in 1..Len(cs) - 1 : cs[i].end <= cs[i + 1].start
  /\ \A i \in 1..NTok : \A j \in 1..Len(cs) :
       IsOk(T(i)) => T(i).end <= cs[j].start \/ cs[j].end <= T(i).start

C2_CommentsOnce ==
  [](C2_SinkState) /\ [][lastOp' = "peek" => comments'.items = comments.items]_vars

(***************************************************************************)
(* C3: the assertions inside the scanners hold on every path, so bump()    *)
(* always returns a token or an Error value.                               *)
(***************************************************************************)
C3_AssertionsHold == ~(result.t = "Panic" /\ result.kind = "assert")

(***************************************************************************)
(* C4: every returned token has start <= end, and successive tokens        *)
(* satisfy t[i].end <= t[i+1].start.                                       *)
(***************************************************************************)
C4_SpansOrdered ==
  /\ \A i \in 1..NTok : IsOk(T(i)) => T(i).start <= T(i).end
  /\ \A i \in 1..NTok - 1 :
       IsOk(T(i)) /\ IsOk(T(i + 1)) => T(i).end <= T(i + 1).start

\* an interpolated URL was bumped through to Eof
C4_Witness ==
  /\ ReachedEof
  /\ NTok >= 7
  /\ \E i \in 1..NTok : T(i).kind = "UrlTemplate" /\ T(i).tail
  /\ \E i \in 1..NTok : T(i).kind = "UrlPrefix"
  /\ \A i \in 1..NTok - 1 : T(i).end <= T(i + 1).start

(***************************************************************************)
(* C5: for an input made of Ident, Number, Str, Hash and Dimension tokens  *)
(* separated by whitespace or comments, the raw slices of the tokens       *)
(* bumped until Eof cover every character of the source that is not        *)
(* whitespace and not in a comment, the last token included.               *)
(***************************************************************************)
InRaw(o, t) ==
  \/ t.rs <= o /\ o < t.re
  \/ t.kind = "Dimension" /\ t.us <= o /\ o < t.ue

C5_RawRoundTrip ==
  (/\ ReachedEof
   /\ comments.some
   /\ \A i \in 1..NTok :
        T(i).kind \in {"Ident", "Number", "Str", "Hash", "Dimension", "Eof"})
  => \A p \in 0..NChars - 1 :
       \/ \E i \in 1..NTok : InRaw(Off(p), T(i))
       \/ \E j \in 1..Len(comments.items) :
            comments.items[j].start <= Off(p) /\ Off(p) < comments.items[j].end
       \/ is_ascii_whitespace(CharAt(p))

(***************************************************************************)
(* C6 as stated: whenever bumping reaches Eof without an error, the        *)
(* template stack is empty and the url flag is None.                       *)
(***************************************************************************)
C6_Original == ReachedEof => state.template = <<>> /\ state.url = "None"

IsTemplate(t) == IsOk(t) /\ t.kind \in {"StrTemplate", "UrlTemplate"}

\* first fragments (they push a frame) and last fragments (they pop one)
Opened ==
  Cardinality({i \in 1..NTok :
                 IsTemplate(T(i)) /\ ~T(i).tail /\ ~TopIs(Pre(i), "Static")})

Closed == Cardinality({i \in 1..NTok : IsTemplate(T(i)) /\ T(i).tail})

(***************************************************************************)
(* C6 amended: whenever bumping reaches Eof without an error, the template *)
(* stack holds one frame for every string or URL template that was opened  *)
(* by a first fragment and not closed by a tail fragment, its top frame is *)
(* not Static, the url flag is not Ambiguous, and the url flag is None     *)
(* when the stack is empty.                                                *)
(***************************************************************************)
C6_Amended ==
  ReachedEof =>
    /\ Depth(state) = Opened - Closed
    /\ ~TopIs(state, "Static")
    /\ state.url # "Ambiguous"
    /\ state.template = <<>> => state.url = "None"

\* Eof was reached inside an interpolation that was never closed
C6_Witness == ReachedEof /\ Opened >= 1 /\ Closed = 0 /\ Depth(state) = 1

(***************************************************************************)
(* C7 as stated: in SCSS/Sass a StrTemplate{tail:false} is followed by     *)
(* HashLBrace, the first fragment's raw includes the opening quote and the *)
(* last fragment's raw includes the closing quote.                         *)
(***************************************************************************)
IsStrTemplate(i) == IsOk(T(i)) /\ T(i).kind = "StrTemplate"

\* the fragment was scanned by scan_string_or_template
IsFirstFragment(i) == ~TopIs(Pre(i), "Static")

Flips(i) ==
  /\ IsOk(T(i)) /\ T(i).kind = "RBrace"
  /\ TopIs(Pre(i), "Interpolation") /\ TopIs(Post(i), "Static")

\* the fragments that put the frame flipped by the i-th bump into Interpolation
Openers(i) ==
  {j \in 1..i - 1 : /\ IsTemplate(T(j)) /\ ~T(j).tail
                    /\ Depth(Post(j)) = Depth(Pre(i))}

Opener(i) == CHOOSE j \in Openers(i) : \A k \in Openers(i) : k <= j

BraceBalance(j, i) ==
  Cardinality({k \in j + 1..i - 1 : T(k).kind \in {"LBrace", "HashLBrace"}})
    - Cardinality({k \in j + 1..i - 1 : T(k).kind = "RBrace"})

C8_FlipOnlyAtBalancingBrace ==
  \A i \in 1..NTok :
    Flips(i) => Openers(i) # {} /\ BraceBalance(Opener(i), i) = 1

(***************************************************************************)
(* C9: in Less, the first fragment of a quoted string with `@{name}`       *)
(* pushes an Interpolation frame; the interpolation is tokenized as        *)
(* LBrace, Ident, RBrace, and after the RBrace the frame is Static; the    *)
(* next bump() resumes the string and returns a StrTemplate, and when      *)
(* that one has tail:true it ends at the closing quote and leaves the      *)
(* template stack as it was before the string.                             *)
(***************************************************************************)
NameFollows(i) ==
  /\ i + 3 <= NTok
  /\ T(i + 1).kind = "LBrace" /\ T(i + 2).kind = "Ident" /\ T(i + 3).kind = "RBrace"
  /\ IsOk(T(i + 3))

C9_LessInterpolation ==
  syntax = "Less" =>
    \A i \in 1..NTok :
      (IsStrTemplate(i) /\ ~T(i).tail /\ IsFirstFragment(i)) =>
        LET q == CharAtOff(T(i).start) IN
        /\ Post(i).template = Append(Pre(i).template, <<"Interpolation", q>>)
        /\ i < NTok => T(i + 1).kind = "LBrace" /\ T(i + 1).start = T(i).end + 1
        /\ NameFollows(i) =>
             Post(i + 3).template = Append(Pre(i).template, <<"Static", q>>)
        /\ (NameFollows(i) /\ i + 4 <= NTok /\ IsOk(T(i + 4))) =>
             /\ T(i + 4).kind = "StrTemplate"
             /\ T(i + 4).start = T(i + 3).end
             /\ T(i + 4).tail =>
                  /\ Post(i + 4).template = Pre(i).template
                  /\ CharAtOff(T(i + 4).end - 1) = q

\* "a@{b}c" was bumped through in Less
C9_Witness ==
  /\ syntax = "Less"
  /\ ReachedEof
  /\ source = Scenario7
  /\ NTok = 6
  /\ IsStrTemplate(1) /\ ~T(1).tail /\ NameFollows(1)
  /\ IsStrTemplate(5) /\ T(5).tail
  /\ Post(5).template = <<>>

(***************************************************************************)
(* C10 as stated: `url( http://x/#{y}.png )` yields UrlPrefix,             *)
(* UrlTemplate "http://x/", HashLBrace, Ident, RBrace, UrlTemplate ".png", *)
(* and no raw slice of a URL token holds the whitespace after `url(` or    *)
(* before `)`.                                                             *)
(***************************************************************************)
IsUrlBody(i) == IsOk(T(i)) /\ T(i).kind \in {"UrlRaw", "UrlTemplate"}

EndsAtParen(i) == T(i).kind = "UrlRaw" \/ T(i).tail

IsKind(i, kind) == IsOk(T(i)) /\ T(i).kind = kind

TopFrame(st) == st.template[Len(st.template)]

C11_UrlProtocol ==
  \A i \in 1..NTok :
    /\ (Pre(i).url # "Ambiguous" /\ Post(i).url = "Ambiguous") <=> IsKind(i, "UrlPrefix")
    /\ (Pre(i).url = "Ambiguous" /\ IsOk(T(i))) =>
         \/ /\ T(i).kind = "UrlRaw"
            /\ CharAtOff(T(i).end) = ")"
            /\ Post(i).url = "None"
            /\ Post(i).template = Pre(i).template
         \/ /\ syntax \in {"Scss", "Sass"}
            /\ T(i).kind = "UrlTemplate" /\ ~T(i).tail
            /\ CharAtOff(T(i).end) = "#" /\ CharAtOff(T(i).end + 1) = "{"
            /\ Post(i).url = "Template"
            /\ Post(i).template = Append(Pre(i).template, <<"Interpolation", ")">>)
    /\ Pre(i).url = "Template" =>
         /\ Post(i).url # "Template" <=> (IsKind(i, "UrlTemplate") /\ T(i).tail)
         /\ Post(i).url # "Template" =>
              /\ Post(i).url = "None"
              /\ TopFrame(Pre(i)) = <<"Static", ")">>
              /\ Post(i).template = Pop(Pre(i).template)
    /\ IsKind(i, "UrlTemplate") => syntax \in {"Scss", "Sass"}

(***************************************************************************)
(* C12: in Sass, a bump() that skips whitespace with a line break in it    *)
(* before a character that is not whitespace returns a layout token whose  *)
(* span is the whitespace after the last line break: Indent when that is   *)
(* longer than indent_size, Dedent when shorter, Linebreak when equal, and *)
(* indent_size is that length afterwards, also when a comment follows the  *)
(* whitespace; when the whitespace runs to the end of input it returns     *)
(* Eof.                                                                    *)
(***************************************************************************)
\* the i-th bump went through skip_ws_or_comment
Skips(i) == ~TopIs(Pre(i), "Static") /\ Pre(i).url # "Ambiguous"

\* the end of the whitespace at the cursor of the i-th bump
BlankEnd(i) == RunEnd(Pre(i).pos, WhiteSpace)

LineBreaks(i) == {j \in Pre(i).pos..BlankEnd(i) - 1 : CharAt(j) = "\n"}

LastBreak(i) == CHOOSE j \in LineBreaks(i) : \A k \in LineBreaks(i) : k <= j

LayoutKind(len, indent_size) ==
  IF len > indent_size THEN "Indent"
  ELSE IF len < indent_size THEN "Dedent" ELSE "Linebreak"

C12_SassLayout ==
  syntax = "Sass" =>
    \A i \in 1..NTok : (Skips(i) /\ T(i).t # "Panic") =>
      /\ (LineBreaks(i) # {} /\ ~AtEnd(BlankEnd(i))) =>
           LET start == Off(LastBreak(i) + 1)
               end == Off(BlankEnd(i))
           IN  /\ T(i) = Tok(LayoutKind(end - start, Pre(i).indent_size), start, end, 0, 0)
               /\ Post(i).indent_size = end - start
      /\ AtEnd(BlankEnd(i)) => T(i) = Tok("Eof", Off(NChars), Off(NChars), 0, 0)

(***************************************************************************)
(* The selector parser.  A parser reads its tokenizer only through peek(), *)
(* bump() and current_offset(); peek() leaves the tokenizer as it was, so  *)
(* the k-th token a parser sees is what the k-th bump() returns.  The      *)
(* parse functions below take the number i of the next token and read the  *)
(* bumps recorded in `tokens`; past Eof the tokenizer returns Eof again.   *)
(* A parse returns [t |-> "Ok", node, i] with the next token's number, an  *)
(* error [t |-> "Err", kind, start, end], or a panic.                      *)
(***************************************************************************)
\* input.tokenizer.peek() before the i-th bump
PTok(i) == IF i <= NTok THEN T(i) ELSE T(NTok)

\* input.tokenizer.current_offset() before the i-th bump
POff(i) == current_offset(IF i <= NTok THEN Pre(i) ELSE Post(NTok))

POk(node, i) == [t |-> "Ok", node |-> node, i |-> i]

PErr(kind, s, e) == [t |-> "Err", kind |-> kind, start |-> s, end |-> e]

PPanic(kind) == [t |-> "Panic", kind |-> kind]

\* the `?` on a tokenizer result that is no token
Propagate(tok) ==
  IF tok.t = "Panic" THEN PPanic(tok.kind) ELSE PErr(tok.kind, tok.start, tok.end)

\* Option::None
None == [kind |-> "None"]

\* expect!(input, Kind): the next token, which must be of that kind
expect(i, kind) ==
  IF ~IsOk(PTok(i)) THEN Propagate(PTok(i))
  ELSE IF PTok(i).kind # kind THEN PErr("Unexpected", PTok(i).start, PTok(i).end)
  ELSE POk(PTok(i), i + 1)

\* Parser::assert_no_ws_or_comment(prev_span, next_span) fails
ws_or_comment_between(prev, next) == prev.end # next.start

ExpectNoWsOrComment(prev, next) == PErr("ExpectNoWsOrComment", prev.end, next.start)

\* a name as code points
Name(chars) == [k \in 1..Len(chars) |-> CodeOf(chars[k])]

\* the unescaped name of an Ident token
ValueOf(s, e) == handle_escape(CharsOf(s, e)).value

\* InterpolableIdent::Literal of an Ident token
Literal(tok) ==
  [kind |-> "Ident", name |-> ValueOf(tok.rs, tok.re), start |-> tok.start, end |-> tok.end]

\* input.parse::<InterpolableIdent>() where no interpolation is written
InterpolableIdent_parse(i) ==
  IF ~IsOk(PTok(i)) THEN Propagate(PTok(i))
  ELSE IF PTok(i).kind # "Ident" THEN PErr("Unexpected", PTok(i).start, PTok(i).end)
  ELSE POk(Literal(PTok(i)), i + 1)

\* a selector node that has a name
Named(kind, name, s, e) == [kind |-> kind, name |-> name, start |-> s, end |-> e]

\* a selector node that is only a span
Spanned(kind, s, e) == [kind |-> kind, start |-> s, end |-> e]

\* a class selector that does not look at what lies before its name
ClassNamedUnchecked(dot, r) ==
  IF r.t # "Ok" THEN r
  ELSE POk(Named("Class", r.node, dot.start, r.node.end), r.i)

\* ClassSelector::parse after the dot, r being the parsed name
ClassNamed(dot, r) ==
  IF r.t # "Ok" THEN r
  ELSE IF ws_or_comment_between(dot, r.node) THEN ExpectNoWsOrComment(dot, r.node)
  ELSE POk(Named("Class", r.node, dot.start, r.node.end), r.i)

ClassSelector_parse(i) ==
  IF expect(i, "Dot").t # "Ok" THEN expect(i, "Dot")
  ELSE ClassNamed(PTok(i), InterpolableIdent_parse(i + 1))

\* PseudoPage::parse after the colon, r being the parsed name
PseudoPageNamed(colon, r) ==
  IF r.t # "Ok" THEN r
  ELSE IF ws_or_comment_between(colon, r.node) THEN ExpectNoWsOrComment(colon, r.node)
  ELSE POk(Named("PseudoPage", r.node, colon.start, r.node.end), r.i)

PseudoPage_parse(i) ==
  IF expect(i, "Colon").t # "Ok" THEN expect(i, "Colon")
  ELSE PseudoPageNamed(PTok(i), InterpolableIdent_parse(i + 1))

\* token.value.starts_with(|c| c.is_ascii_digit()) of a Hash token
starts_with_digit(value) == Len(value) > 0 /\ value[1] \in {CodeOf(d) : d \in Digits}

\* the Ident made of a Hash token without its `#`
HashName(tok) ==
  [kind |-> "Ident", name |-> ValueOf(tok.start + 1, tok.end),
   start |-> tok.start + 1, end |-> tok.end]

\* IdSelector::parse for a NumberSign token, r being the parsed name
IdNamed(token, r) ==
  IF r.t # "Ok" THEN r
  ELSE POk(Named("Id", r.node, token.start, r.node.end), r.i)

\* IdSelector::parse for a Hash token
IdOfHash(token, i) ==
  IF starts_with_digit(HashName(token).name)
  THEN PErr("InvalidIdSelectorName", token.start + 1, token.end)
  ELSE IF ~IsOk(PTok(i)) THEN Propagate(PTok(i))
  ELSE IF /\ PTok(i).kind = "HashLBrace"
          /\ syntax \in {"Scss", "Sass"}
          /\ token.end = PTok(i).start
  THEN PErr("SassInterpolated", PTok(i).start, PTok(i).end)
  ELSE POk(Named("Id", HashName(token), token.start, token.end), i)

IdSelector_parse(i) ==
  IF ~IsOk(PTok(i)) THEN Propagate(PTok(i))
  ELSE IF PTok(i).kind = "Hash" THEN IdOfHash(PTok(i), i + 1)
  ELSE IF PTok(i).kind = "NumberSign" THEN IdNamed(PTok(i), InterpolableIdent_parse(i + 1))
  ELSE PErr("ExpectIdSelector", PTok(i).start, PTok(i).end)

NestingSelector_parse(i) ==
  IF expect(i, "Ampersand").t # "Ok" THEN expect(i, "Ampersand")
  ELSE POk(Spanned("Nesting", PTok(i).start, PTok(i).end), i + 1)

\* NsPrefix of what stands before the bar (None when nothing does)
NsPrefix(ident_or_asterisk, bar) ==
  IF ident_or_asterisk = None
  THEN [kind |-> "NsPrefix", of |-> None, start |-> bar.start, end |-> bar.end]
  ELSE [kind |-> "NsPrefix", of |-> ident_or_asterisk,
        start |-> ident_or_asterisk.start, end |-> bar.end]

WqName(prefix, name, s, e) ==
  [kind |-> "TagName", prefix |-> prefix, name |-> name, start |-> s, end |-> e]

Universal(prefix, s, e) == [kind |-> "Universal", prefix |-> prefix, start |-> s, end |-> e]

\* TypeSelector::parse after `prefix|`, r being the parsed name
PrefixedName(prefix, r) ==
  IF r.t # "Ok" THEN r
  ELSE IF ws_or_comment_between(prefix, r.node) THEN ExpectNoWsOrComment(prefix, r.node)
  ELSE POk(WqName(prefix, r.node, prefix.start, r.node.end), r.i)

\* TypeSelector::parse after the bar was consumed, i being the token after it
AfterBar(prefix, i) ==
  IF ~IsOk(PTok(i)) THEN Propagate(PTok(i))
  ELSE IF PTok(i).kind \in {"Ident", "HashLBrace"}
  THEN PrefixedName(prefix, InterpolableIdent_parse(i))
  ELSE IF PTok(i).kind = "Asterisk"
  THEN IF ws_or_comment_between(prefix, PTok(i)) THEN ExpectNoWsOrComment(prefix, PTok(i))
       ELSE POk(Universal(prefix, prefix.start, PTok(i).end), i + 1)
  ELSE PErr("ExpectTypeSelector", PTok(i).start, PTok(i).end)

\* a type selector that takes every `|` for the namespace separator
AfterIdentOrAsteriskAnyBar(ident_or_asterisk, i) ==
  IF ~IsOk(PTok(i)) THEN Propagate(PTok(i))
  ELSE IF PTok(i).kind = "Bar" THEN AfterBar(NsPrefix(ident_or_asterisk, PTok(i)), i + 1)
  ELSE IF ident_or_asterisk = None THEN PPanic("unreachable")
  ELSE IF ident_or_asterisk.kind = "Ident"
  THEN POk(WqName(None, ident_or_asterisk, ident_or_asterisk.start, ident_or_asterisk.end), i)
  ELSE POk(Universal(None, ident_or_asterisk.start, ident_or_asterisk.end), i)

\* TypeSelector::parse once ident_or_asterisk is known, i being the next token
AfterIdentOrAsterisk(ident_or_asterisk, i) ==
  IF ~IsOk(PTok(i)) THEN Propagate(PTok(i))
  ELSE IF /\ PTok(i).kind = "Bar"
          /\ (ident_or_asterisk # None => ident_or_asterisk.end = PTok(i).start)
  THEN AfterBar(NsPrefix(ident_or_asterisk, PTok(i)), i + 1)
  ELSE IF ident_or_asterisk = None THEN PPanic("unreachable")
  ELSE IF ident_or_asterisk.kind = "Ident"
  THEN POk(WqName(None, ident_or_asterisk, ident_or_asterisk.start, ident_or_asterisk.end), i)
  ELSE POk(Universal(None, ident_or_asterisk.start, ident_or_asterisk.end), i)

\* TypeSelector::parse for a leading name, r being the parsed name
AfterTypeName(r) == IF r.t # "Ok" THEN r ELSE AfterIdentOrAsterisk(r.node, r.i)

TypeSelector_parse(i) ==
  IF ~IsOk(PTok(i)) THEN Propagate(PTok(i))
  ELSE IF PTok(i).kind \in {"Ident", "HashLBrace"} THEN AfterTypeName(InterpolableIdent_parse(i))
  ELSE IF PTok(i).kind = "Asterisk"
  THEN AfterIdentOrAsterisk(Spanned("Asterisk", PTok(i).start, PTok(i).end), i + 1)
  ELSE IF PTok(i).kind = "Bar" THEN AfterIdentOrAsterisk(None, i)
  ELSE PPanic("unreachable")

(***************************************************************************)
(* AttributeSelector::parse.                                               *)
(***************************************************************************)
\* input.parse::<InterpolableStr>() where no interpolation is written
InterpolableStr_parse(i) ==
  IF ~IsOk(PTok(i)) THEN Propagate(PTok(i))
  ELSE IF PTok(i).kind # "Str" THEN PErr("Unexpected", PTok(i).start, PTok(i).end)
  ELSE POk([kind |-> "Str", value |-> ValueOf(PTok(i).start + 1, PTok(i).end - 1),
            start |-> PTok(i).start, end |-> PTok(i).end], i + 1)

\* the WqName of an attribute selector
AttributeName(prefix, name, s, e) ==
  [kind |-> "WqName", prefix |-> prefix, name |-> name, start |-> s, end |-> e]

\* the name after `ident|`, r being the parsed name
AttrNameAfterIdentBar(ident, bar, r) ==
  IF r.t # "Ok" THEN r
  ELSE IF ws_or_comment_between(bar, r.node) THEN ExpectNoWsOrComment(bar, r.node)
  ELSE POk(AttributeName(NsPrefix(ident, bar), r.node, ident.start, r.node.end), r.i)

\* the Ident arm: the token is bumped and r is what parse::<InterpolableIdent>
\* returned after it; eat!(input, Bar) follows
AttrNameAfterIdent(r) ==
  IF r.t # "Ok" THEN r
  ELSE IF ~IsOk(PTok(r.i)) THEN Propagate(PTok(r.i))
  ELSE IF PTok(r.i).kind # "Bar"
  THEN POk(AttributeName(None, r.node, r.node.start, r.node.end), r.i)
  ELSE IF ws_or_comment_between(r.node, PTok(r.i)) THEN ExpectNoWsOrComment(r.node, PTok(r.i))
  ELSE AttrNameAfterIdentBar(r.node, PTok(r.i), InterpolableIdent_parse(r.i + 1))

\* a name after a prefix that is `*` or nothing, r being the parsed name
AttrNameAfterPrefix(prefix, r) ==
  IF r.t # "Ok" THEN r
  ELSE POk(AttributeName(prefix, r.node, prefix.start, r.node.end), r.i)

\* the Asterisk arm: the asterisk is bumped, bar is what expect!(input, Bar)
\* returned
AttrNameAfterAsterisk(asterisk, bar) ==
  IF bar.t # "Ok" THEN bar
  ELSE AttrNameAfterPrefix(
         NsPrefix(Spanned("Asterisk", asterisk.start, asterisk.end), bar.node),
         InterpolableIdent_parse(bar.i))

\* `let name = match input.tokenizer.bump()? { ... }`, i being the token bumped
AttrName_parse(i) ==
  IF ~IsOk(PTok(i)) THEN Propagate(PTok(i))
  ELSE IF PTok(i).kind \in {"Ident", "HashLBrace"}
  THEN AttrNameAfterIdent(InterpolableIdent_parse(i + 1))
  ELSE IF PTok(i).kind = "Asterisk" THEN AttrNameAfterAsterisk(PTok(i), expect(i + 1, "Bar"))
  ELSE IF PTok(i).kind = "Bar"
  THEN AttrNameAfterPrefix(NsPrefix(None, PTok(i)), InterpolableIdent_parse(i + 1))
  ELSE PErr("ExpectWqName", PTok(i).start, PTok(i).end)

\* AttributeSelectorMatcherKind of a token kind
MatcherKind(kind) ==
  CASE kind = "Equal" -> "Equals"
    [] kind = "TildeEqual" -> "Tilde"
    [] kind = "BarEqual" -> "Bar"
    [] kind = "CaretEqual" -> "Caret"
    [] kind = "DollarEqual" -> "Dollar"
    [] kind = "AsteriskEqual" -> "Asterisk"

MatcherTokens ==
  {"Equal", "TildeEqual", "BarEqual", "CaretEqual", "DollarEqual", "AsteriskEqual"}

\* `let matcher = match input.tokenizer.peek()? { ... }`
AttrMatcher_parse(i) ==
  IF ~IsOk(PTok(i)) THEN Propagate(PTok(i))
  ELSE IF PTok(i).kind = "RBracket" THEN POk(None, i)
  ELSE IF PTok(i).kind \in MatcherTokens
  THEN POk([kind |-> "Matcher", matcher |-> MatcherKind(PTok(i).kind),
            start |-> PTok(i).start, end |-> PTok(i).end], i + 1)
  ELSE PErr("ExpectAttributeSelectorMatcher", PTok(i).start, PTok(i).end)

\* `let value = match input.tokenizer.bump()? { ... }`, i being the token bumped
AttrValue_parse(i) ==
  IF ~IsOk(PTok(i)) THEN Propagate(PTok(i))
  ELSE IF PTok(i).kind \in {"Ident", "HashLBrace"} THEN InterpolableIdent_parse(i + 1)
  ELSE IF PTok(i).kind \in {"Str", "StrTemplate"} THEN InterpolableStr_parse(i + 1)
  ELSE IF PTok(i).kind = "RBracket" THEN POk(None, i + 1)
  ELSE PErr("ExpectAttributeSelectorValue", PTok(i).start, PTok(i).end)

\* `let modifier = if value.is_some() { ... }`
AttrModifier_parse(value, i) ==
  IF value = None THEN POk(None, i)
  ELSE IF ~IsOk(PTok(i)) THEN Propagate(PTok(i))
  ELSE IF PTok(i).kind \in {"Ident", "HashLBrace"} THEN InterpolableIdent_parse(i)
  ELSE POk(None, i)

\* Ok(AttributeSelector { .. }), r_bracket being what expect! returned
AttrClose(l_bracket, name, matcher, value, modifier, r_bracket) ==
  IF r_bracket.t # "Ok" THEN r_bracket
  ELSE POk([kind |-> "Attribute", name |-> name, matcher |-> matcher, value |-> value,
            modifier |-> modifier, start |-> l_bracket.start, end |-> r_bracket.node.end],
           r_bracket.i)

AttrAfterModifier(l_bracket, name, matcher, value, f) ==
  IF f.t # "Ok" THEN f
  ELSE AttrClose(l_bracket, name, matcher, value, f.node, expect(f.i, "RBracket"))

AttrAfterValue(l_bracket, name, matcher, v) ==
  IF v.t # "Ok" THEN v
  ELSE AttrAfterModifier(l_bracket, name, matcher, v.node, AttrModifier_parse(v.node, v.i))

AttrAfterMatcher(l_bracket, name, m) ==
  IF m.t # "Ok" THEN m
  ELSE AttrAfterValue(l_bracket, name, m.node, AttrValue_parse(m.i))

AttrAfterName(l_bracket, n) ==
  IF n.t # "Ok" THEN n
  ELSE AttrAfterMatcher(l_bracket, n.node, AttrMatcher_parse(n.i))

AttributeSelector_parse(i) ==
  IF expect(i, "LBracket").t # "Ok" THEN expect(i, "LBracket")
  ELSE AttrAfterName(PTok(i), AttrName_parse(i + 1))

RECURSIVE SimpleSelector_parse(_), CompoundSelector_parse(_), ComplexSelector_parse(_)
RECURSIVE PseudoClassSelector_parse(_), PseudoElementSelector_parse(_)

\* the selectors whose grammar is outside the alphabet of Selectors
OtherSelector(tok) == PErr("OutsideAlphabet", tok.start, tok.end)

SimpleSelector_parse(i) ==
  IF ~IsOk(PTok(i)) THEN Propagate(PTok(i))
  ELSE IF PTok(i).kind = "Dot" THEN ClassSelector_parse(i)
  ELSE IF PTok(i).kind \in {"Hash", "NumberSign"} THEN IdSelector_parse(i)
  ELSE IF PTok(i).kind = "LBracket" THEN AttributeSelector_parse(i)
  ELSE IF PTok(i).kind = "Colon" THEN PseudoClassSelector_parse(i)
  ELSE IF PTok(i).kind = "ColonColon" THEN PseudoElementSelector_parse(i)
  ELSE IF PTok(i).kind \in {"Ident", "Asterisk", "HashLBrace", "Bar"} THEN TypeSelector_parse(i)
  ELSE IF PTok(i).kind = "Ampersand" THEN NestingSelector_parse(i)
  ELSE IF PTok(i).kind = "Percent" /\ syntax \in {"Scss", "Sass"} THEN OtherSelector(PTok(i))
  ELSE PErr("ExpectSimpleSelector", PTok(i).start, PTok(i).end)

\* the token kinds after which CompoundSelector::parse goes on
CompoundContinues ==
  {"Dot", "Hash", "Colon", "ColonColon", "Ampersand", "Ident", "Asterisk",
   "HashLBrace", "NumberSign", "Bar"}

\* a guard that lets a compound go on across whitespace and comments
continues_across_gap(i) == PTok(i).kind \in CompoundContinues

\* the guard of the loop of CompoundSelector::parse
continues_compound(i) == PTok(i).kind \in CompoundContinues /\ POff(i) = PTok(i).start

Compound(children) ==
  [kind |-> "Compound", children |-> children,
   start |-> children[1].start, end |-> children[Len(children)].end]

RECURSIVE CompoundLoop(_, _)
\* children.push(input.parse()?), r being the parsed simple selector
CompoundPush(children, r) ==
  IF r.t # "Ok" THEN r ELSE CompoundLoop(Append(children, r.node), r.i)

CompoundLoop(children, i) ==
  IF ~IsOk(PTok(i)) THEN Propagate(PTok(i))
  ELSE IF continues_compound(i)
  THEN CompoundPush(children, SimpleSelector_parse(i))
  ELSE POk(Compound(children), i)

CompoundSelector_parse(i) == CompoundPush(<<>>, SimpleSelector_parse(i))

\* the token kinds before which a gap is a descendant combinator
DescendantBefore ==
  {"Ident", "Dot", "Hash", "Colon", "ColonColon", "Asterisk", "Ampersand", "Bar"}

Combinator(comb, s, e) == [kind |-> "Combinator", comb |-> comb, start |-> s, end |-> e]

\* the combinator an explicit combinator token stands for ("" for none)
CombinatorKind(kind) ==
  IF kind = "GreaterThan" THEN "Child"
  ELSE IF kind = "Plus" THEN "NextSibling"
  ELSE IF kind = "Tilde" THEN "LaterSibling"
  ELSE IF kind = "BarBar" THEN "Column"
  ELSE ""

parse_combinator(i) ==
  IF ~IsOk(PTok(i)) THEN Propagate(PTok(i))
  ELSE IF PTok(i).kind \in DescendantBefore /\ POff(i) < PTok(i).start
  THEN POk(Combinator("Descendant", POff(i), PTok(i).start), i)
  ELSE IF CombinatorKind(PTok(i).kind) # ""
  THEN POk(Combinator(CombinatorKind(PTok(i).kind), PTok(i).start, PTok(i).end), i + 1)
  ELSE POk(None, i)

Complex(children) ==
  [kind |-> "Complex", children |-> children,
   start |-> children[1].start, end |-> children[Len(children)].end]

RECURSIVE ComplexLoop(_, _)
\* a push that ends the selector when no compound selector follows
ComplexPushIfAny(children, r) ==
  IF r.t # "Ok" /\ children # <<>> THEN POk(Complex(children), NTok)
  ELSE IF r.t # "Ok" THEN r
  ELSE ComplexLoop(Append(children, r.node), r.i)

\* children.push(input.parse()...?), r being the parsed compound selector
ComplexPush(children, r) ==
  IF r.t # "Ok" THEN r ELSE ComplexLoop(Append(children, r.node), r.i)

\* `while let Some(combinator) = ...`, c being what parse_combinator returned
ComplexWhile(children, c) ==
  IF c.t # "Ok" THEN c
  ELSE IF c.node = None THEN POk(Complex(children), c.i)
  ELSE ComplexPush(Append(children, c.node), CompoundSelector_parse(c.i))

ComplexLoop(children, i) == ComplexWhile(children, parse_combinator(i))

ComplexSelector_parse(i) == ComplexPush(<<>>, CompoundSelector_parse(i))

(***************************************************************************)
(* Numbers in the parser.  The f64 value of a Number token is kept exactly *)
(* as a sign, decimal digits (code points) and a power of ten; an i32 is   *)
(* computed only from digits that fit it.                                  *)
(***************************************************************************)
\* the value of the decimal digits s[i .. j - 1], given as characters
RECURSIVE DecVal(_, _, _)
DecVal(s, i, j) ==
  IF j <= i THEN 0 ELSE DecVal(s, i, j - 1) * 10 + (CodeOf(s[j - 1]) - 48)

\* raw.parse::<f64>() of a slice that parses_as_f64: -1^neg * digits * 10^scale
number_value(s) ==
  LET i0 == IF Len(s) >= 1 /\ s[1] \in {"+", "-"} THEN 2 ELSE 1
      i1 == DigitRun(s, i0)
      dot == i1 <= Len(s) /\ s[i1] = "."
      i2 == IF dot THEN DigitRun(s, i1 + 1) ELSE i1
      k == IF dot THEN i2 - (i1 + 1) ELSE 0
      hasE == i2 <= Len(s) /\ s[i2] \in {"e", "E"}
      i3 == IF hasE /\ s[i2 + 1] \in {"+", "-"} THEN i2 + 2 ELSE i2 + 1
      exp == IF ~hasE THEN 0
             ELSE (IF s[i2 + 1] = "-" THEN -1 ELSE 1) * DecVal(s, i3, Len(s) + 1)
  IN  [neg |-> Len(s) >= 1 /\ s[1] = "-",
       digits |-> Name(SubSeq(s, i0, i1 - 1) \o (IF dot THEN SubSeq(s, i1 + 1, i2 - 1) ELSE <<>>)),
       scale |-> exp - k]

\* value.fract() == 0.0
fract_is_zero(v) ==
  \A k \in 1..Len(v.digits) : k > Len(v.digits) + v.scale => v.digits[k] = 48

RECURSIVE strip_zeros(_)
strip_zeros(digits) ==
  IF digits # <<>> /\ digits[1] = 48 THEN strip_zeros(Tail(digits)) ELSE digits

\* the digits of the integer a value without fraction is
integer_digits(v) ==
  strip_zeros(IF v.scale >= 0 THEN v.digits \o [k \in 1..v.scale |-> 48]
              ELSE SubSeq(v.digits, 1, Len(v.digits) + v.scale))

\* the digits of i32::MAX, and of i32::MIN without its sign
I32MaxDigits == Name(<<"2", "1", "4", "7", "4", "8", "3", "6", "4", "7">>)

I32MinDigits == Name(<<"2", "1", "4", "7", "4", "8", "3", "6", "4", "8">>)

\* a <= b for digit strings of one length
RECURSIVE digits_leq(_, _)
digits_leq(a, b) ==
  IF a = <<>> THEN TRUE
  ELSE IF a[1] # b[1] THEN a[1] < b[1]
  ELSE digits_leq(Tail(a), Tail(b))

\* the integer written with the digits is an i32
fits_i32(neg, digits) ==
  \/ Len(digits) < Len(I32MaxDigits)
  \/ /\ Len(digits) = Len(I32MaxDigits)
     /\ digits_leq(digits, IF neg THEN I32MinDigits ELSE I32MaxDigits)

\* minus the value of the first j digits
RECURSIVE NegVal(_, _)
NegVal(digits, j) ==
  IF j = 0 THEN 0 ELSE NegVal(digits, j - 1) * 10 - (digits[j] - 48)

\* the i32 written with a sign and digits that fit
i32_value(neg, digits) ==
  IF neg THEN NegVal(digits, Len(digits)) ELSE -NegVal(digits, Len(digits))

Int32(v) == [t |-> "Ok", v |-> v]

\* the i32 of a value, ExpectInteger at [s, e) when it has none
i32_of_value(v, s, e) ==
  IF fract_is_zero(v) /\ fits_i32(v.neg, integer_digits(v))
  THEN Int32(i32_value(v.neg, integer_digits(v)))
  ELSE PErr("ExpectInteger", s, e)

\* i32::try_from of the Number whose raw slice is [s, e)
i32_of_number(s, e) == i32_of_value(number_value(CharsOf(s, e)), s, e)

\* digits.chars().any(|c| !c.is_ascii_digit())
any_non_digit(digits) == \E k \in 1..Len(digits) : digits[k] < 48 \/ digits[k] > 57

\* digits.parse::<i32>() of ASCII digits fails
parse_i32_fails(digits) == digits = <<>> \/ ~fits_i32(FALSE, strip_zeros(digits))

expect_unsigned_int(i) ==
  IF expect(i, "Number").t # "Ok" THEN expect(i, "Number")
  ELSE IF \E k \in PTok(i).rs..PTok(i).re - 1 : ~is_ascii_digit(CharAtOff(k))
  THEN PErr("ExpectUnsignedInteger", PTok(i).start, PTok(i).end)
  ELSE POk(PTok(i), i + 1)

(***************************************************************************)
(* AnPlusB::parse and Nth::parse.                                          *)
(***************************************************************************)
\* Ok(AnPlusB { a: a?, b: b?, span }), a and b being results of conversions
AnPlusB(a, b, s, e, i) ==
  IF a.t # "Ok" THEN a
  ELSE IF b.t # "Ok" THEN b
  ELSE POk([kind |-> "AnPlusB", a |-> a.v, b |-> b.v, start |-> s, end |-> e], i)

\* sign * i32::try_from(number)?
Times(sign, b) == IF b.t # "Ok" THEN b ELSE Int32(sign * b.v)

\* ... <signless-integer>, n being what expect_unsigned_int returned
SignlessInteger(a, sign, s, n) ==
  IF n.t # "Ok" THEN n
  ELSE AnPlusB(a, Times(sign, i32_of_number(n.node.rs, n.node.re)), s, n.node.end, n.i)

\* the Number arm after an `n`: `Token::Number(number) =>`
number_follows(tok) == tok.kind = "Number"

\* the match after an `n` whose span is [s, e): a sign and a signless integer,
\* a signed integer, or nothing
AfterN(a, s, e, i) ==
  IF ~IsOk(PTok(i)) THEN Propagate(PTok(i))
  ELSE IF PTok(i).kind \in {"Plus", "Minus"}
  THEN SignlessInteger(a, IF PTok(i).kind = "Plus" THEN 1 ELSE -1, s,
                       expect_unsigned_int(i + 1))
  ELSE IF number_follows(PTok(i))
  THEN AnPlusB(a, i32_of_number(PTok(i).rs, PTok(i).re), s, PTok(i).end, i + 1)
  ELSE AnPlusB(a, Int32(0), s, e, i)

\* the None of strip_prefix: no code point is negative
NoSuffix == <<-1>>

\* name.strip_prefix(word) of names given as code points
strip_prefix(name, word) ==
  IF Len(name) >= Len(word) /\ SubSeq(name, 1, Len(word)) = word
  THEN SubSeq(name, Len(word) + 1, Len(name))
  ELSE NoSuffix

\* the ndashdigit forms: the digits after `n-` in an ident that starts at u
NDashDigits(a, digits, u, ue, s, e, i) ==
  IF any_non_digit(digits) THEN PErr("ExpectUnsignedInteger", u, ue)
  ELSE IF parse_i32_fails(digits) THEN PErr("ExpectInteger", u, ue)
  ELSE AnPlusB(a, Int32(NegVal(digits, Len(digits))), s, e, i)

\* the forms of an ident `name` with span [us, ue) that is `word`, `word-` or
\* `word-<digits>`; s is the start of the An+B, e the end of the token, i the
\* next token, other the result for an ident of another form
NForms(name, word, a, us, ue, s, e, i, other) ==
  IF eq_ignore_ascii_case(name, Name(word)) THEN AfterN(a, s, e, i)
  ELSE IF eq_ignore_ascii_case(name, Name(word \o <<"-">>))
  THEN SignlessInteger(a, -1, s, expect_unsigned_int(i))
  ELSE IF strip_prefix(name, Name(word \o <<"-">>)) # NoSuffix
  THEN NDashDigits(a, strip_prefix(name, Name(word \o <<"-">>)),
                   us + Len(word) + 1, ue, s, e, i)
  ELSE other

\* the Dimension arm
OfDimension(tok, i) ==
  NForms(ValueOf(tok.us, tok.ue), <<"n">>, i32_of_number(tok.rs, tok.re),
         tok.us, tok.ue, tok.start, tok.end, i,
         PErr("InvalidAnPlusB", tok.start, tok.end))

\* the Plus arm, ident being what expect!(input, Ident) returned
AfterPlus(plus, ident) ==
  IF ident.t # "Ok" THEN ident
  ELSE IF ws_or_comment_between(plus, ident.node) THEN ExpectNoWsOrComment(plus, ident.node)
  ELSE NForms(ValueOf(ident.node.rs, ident.node.re), <<"n">>, Int32(1),
              ident.node.start, ident.node.end, plus.start, ident.node.end, ident.i,
              PErr("InvalidAnPlusB", plus.start, ident.node.end))

\* the Ident arm
OfIdent(tok, i) ==
  NForms(ValueOf(tok.rs, tok.re), <<"n">>, Int32(1),
         tok.start, tok.end, tok.start, tok.end, i,
         NForms(ValueOf(tok.rs, tok.re), <<"-", "n">>, Int32(-1),
                tok.start, tok.end, tok.start, tok.end, i,
                PErr("InvalidAnPlusB", tok.start, tok.end)))

AnPlusB_parse(i) ==
  IF ~IsOk(PTok(i)) THEN Propagate(PTok(i))
  ELSE IF PTok(i).kind = "Dimension" THEN OfDimension(PTok(i), i + 1)
  ELSE IF PTok(i).kind = "Plus" THEN AfterPlus(PTok(i), expect(i + 1, "Ident"))
  ELSE IF PTok(i).kind = "Ident" THEN OfIdent(PTok(i), i + 1)
  ELSE PErr("InvalidAnPlusB", PTok(i).start, PTok(i).end)

\* a variant of Nth around a node
Nth(variant, r) ==
  IF r.t # "Ok" THEN r
  ELSE POk([kind |-> "Nth", variant |-> variant, of |-> r.node,
            start |-> r.node.start, end |-> r.node.end], r.i)

\* Nth::Integer(number.into())
IntegerOf(tok) ==
  [kind |-> "Integer", value |-> number_value(CharsOf(tok.rs, tok.re)),
   start |-> tok.start, end |-> tok.end]

\* a comparison of idents that tells upper case from lower case
eq_case(value, word) == value = word

\* ident.name.eq_ignore_ascii_case(word) for the keywords of Nth
is_keyword(value, word) == eq_ignore_ascii_case(value, word)

Nth_parse(i) ==
  IF ~IsOk(PTok(i)) THEN Propagate(PTok(i))
  ELSE IF PTok(i).kind = "Ident" /\ is_keyword(ValueOf(PTok(i).rs, PTok(i).re), Name(<<"o", "d", "d">>))
  THEN Nth("Odd", POk(Literal(PTok(i)), i + 1))
  ELSE IF PTok(i).kind = "Ident" /\ is_keyword(ValueOf(PTok(i).rs, PTok(i).re), Name(<<"e", "v", "e", "n">>))
  THEN Nth("Even", POk(Literal(PTok(i)), i + 1))
  ELSE IF PTok(i).kind = "Number"
  THEN IF fract_is_zero(number_value(CharsOf(PTok(i).rs, PTok(i).re)))
       THEN Nth("Integer", POk(IntegerOf(PTok(i)), i + 1))
       ELSE PErr("ExpectInteger", PTok(i).start, PTok(i).end)
  ELSE Nth("AnPlusB", AnPlusB_parse(i))

(***************************************************************************)
(* The lists, RelativeSelector, and the pseudo-class and pseudo-element     *)
(* selectors with their arguments.                                         *)
(***************************************************************************)
\* LanguageRange::parse
LanguageRange_parse(i) ==
  IF ~IsOk(PTok(i)) THEN Propagate(PTok(i))
  ELSE IF PTok(i).kind \in {"Str", "StrTemplate"} THEN InterpolableStr_parse(i)
  ELSE InterpolableIdent_parse(i)

\* Ok(RelativeSelector { .. }), r being the parsed complex selector
Relative(combinator, r) ==
  IF r.t # "Ok" THEN r
  ELSE POk([kind |-> "Relative", combinator |-> combinator, complex_selector |-> r.node,
            start |-> IF combinator = None THEN r.node.start ELSE combinator.start,
            end |-> r.node.end], r.i)

\* RelativeSelector::parse after parse_combinator returned c
RelativeAfterCombinator(c) ==
  IF c.t # "Ok" THEN c ELSE Relative(c.node, ComplexSelector_parse(c.i))

RelativeSelector_parse(i) == RelativeAfterCombinator(parse_combinator(i))

\* input.parse() of the element of a list
Element_parse(elem, i) ==
  CASE elem = "Complex" -> ComplexSelector_parse(i)
    [] elem = "Relative" -> RelativeSelector_parse(i)
    [] elem = "Compound" -> CompoundSelector_parse(i)
    [] elem = "LanguageRange" -> LanguageRange_parse(i)

List(elem, items) ==
  [kind |-> "List", of |-> elem, items |-> items,
   start |-> items[1].start, end |-> items[Len(items)].end]

RECURSIVE ListLoop(_, _, _)
\* selectors.push(input.parse()?), r being the parsed element
ListPush(elem, items, r) ==
  IF r.t # "Ok" THEN r ELSE ListLoop(elem, Append(items, r.node), r.i)

\* `while eat!(input, Comma).is_some()`
ListLoop(elem, items, i) ==
  IF ~IsOk(PTok(i)) THEN Propagate(PTok(i))
  ELSE IF PTok(i).kind = "Comma" THEN ListPush(elem, items, Element_parse(elem, i + 1))
  ELSE POk(List(elem, items), i)

\* SelectorList::parse, RelativeSelectorList::parse, CompoundSelectorList::parse
\* and LanguageRangeList::parse
List_parse(elem, i) == ListPush(elem, <<>>, Element_parse(elem, i))

\* a comparison of names that tells upper case from lower case
name_eq_case(name, words) == \E w \in words : name = Name(w)

\* name.eq_ignore_ascii_case(w) for one of the words
name_is(name, words) == \E w \in words : eq_ignore_ascii_case(name, Name(w))

NthNames ==
  {<<"n", "t", "h", "-", "c", "h", "i", "l", "d">>,
   <<"n", "t", "h", "-", "l", "a", "s", "t", "-", "c", "h", "i", "l", "d">>,
   <<"n", "t", "h", "-", "o", "f", "-", "t", "y", "p", "e">>,
   <<"n", "t", "h", "-", "l", "a", "s", "t", "-", "o", "f", "-", "t", "y", "p", "e">>,
   <<"n", "t", "h", "-", "c", "o", "l">>,
   <<"n", "t", "h", "-", "l", "a", "s", "t", "-", "c", "o", "l">>}

SelectorListNames ==
  {<<"n", "o", "t">>, <<"i", "s">>, <<"w", "h", "e", "r", "e">>,
   <<"m", "a", "t", "c", "h", "e", "s">>}

CompoundListNames ==
  {<<"-", "m", "o", "z", "-", "a", "n", "y">>,
   <<"-", "w", "e", "b", "k", "i", "t", "-", "a", "n", "y">>,
   <<"c", "u", "r", "r", "e", "n", "t">>, <<"p", "a", "s", "t">>,
   <<"f", "u", "t", "u", "r", "e">>}

HostNames == {<<"h", "o", "s", "t">>, <<"h", "o", "s", "t", "-", "c", "o", "n", "t", "e", "x", "t">>}

CueNames ==
  {<<"c", "u", "e">>, <<"c", "u", "e", "-", "r", "e", "g", "i", "o", "n">>,
   <<"s", "l", "o", "t", "t", "e", "d">>}

\* `let arg = match &name { ... }` of PseudoClassSelector::parse
PseudoClassArg(name) ==
  IF name_is(name, NthNames) THEN "Nth"
  ELSE IF name_is(name, SelectorListNames) THEN "SelectorList"
  ELSE IF name_is(name, {<<"h", "a", "s">>}) THEN "RelativeSelectorList"
  ELSE IF name_is(name, {<<"d", "i", "r">>}) THEN "Ident"
  ELSE IF name_is(name, {<<"l", "a", "n", "g">>}) THEN "LanguageRangeList"
  ELSE IF name_is(name, CompoundListNames) THEN "CompoundSelectorList"
  ELSE IF name_is(name, HostNames) THEN "CompoundSelector"
  ELSE "todo!"

\* `let arg = match &name { ... }` of PseudoElementSelector::parse
PseudoElementArg(name) ==
  IF name_is(name, {<<"p", "a", "r", "t">>}) THEN "Ident"
  ELSE IF name_is(name, CueNames) THEN "CompoundSelector"
  ELSE "todo!"

\* input.parse() of the argument of a variant
Arg_parse(variant, i) ==
  CASE variant = "Nth" -> Nth_parse(i)
    [] variant = "SelectorList" -> List_parse("Complex", i)
    [] variant = "RelativeSelectorList" -> List_parse("Relative", i)
    [] variant = "Ident" -> InterpolableIdent_parse(i)
    [] variant = "LanguageRangeList" -> List_parse("LanguageRange", i)
    [] variant = "CompoundSelectorList" -> List_parse("Compound", i)
    [] variant = "CompoundSelector" -> CompoundSelector_parse(i)
    [] variant = "todo!" -> PPanic("todo")

Pseudo(kind, name, arg, s, e) ==
  [kind |-> kind, name |-> name, arg |-> arg, start |-> s, end |-> e]

\* `end = expect!(input, RParen).span.end; Some(arg)`
PseudoClose(kind, colon, name, variant, arg, r_paren) ==
  IF r_paren.t # "Ok" THEN r_paren
  ELSE POk(Pseudo(kind, name, [kind |-> "Arg", variant |-> variant, of |-> arg],
                  colon.start, r_paren.node.end), r_paren.i)

\* the argument a was parsed after `(`
PseudoWithArg(kind, colon, name, variant, a) ==
  IF a.t # "Ok" THEN a
  ELSE PseudoClose(kind, colon, name, variant, a.node, expect(a.i, "RParen"))

\* a pseudo-class or pseudo-element that takes its argument from a `(` at
\* any distance from the name
PseudoAfterAnyLParen(kind, colon, variant, r) ==
  IF r.t # "Ok" THEN r
  ELSE IF ws_or_comment_between(colon, r.node) THEN ExpectNoWsOrComment(colon, r.node)
  ELSE IF ~IsOk(PTok(r.i)) THEN Propagate(PTok(r.i))
  ELSE IF PTok(r.i).kind = "LParen"
  THEN PseudoWithArg(kind, colon, r.node, variant, Arg_parse(variant, r.i + 1))
  ELSE POk(Pseudo(kind, r.node, None, colon.start, r.node.end), r.i)

\* the pseudo-class or pseudo-element after its colon(s), r being the parsed
\* name and variant the argument its name takes
PseudoAfterName(kind, colon, variant, r) ==
  IF r.t # "Ok" THEN r
  ELSE IF ws_or_comment_between(colon, r.node) THEN ExpectNoWsOrComment(colon, r.node)
  ELSE IF ~IsOk(PTok(r.i)) THEN Propagate(PTok(r.i))
  ELSE IF PTok(r.i).kind = "LParen" /\ PTok(r.i).start = r.node.end
  THEN PseudoWithArg(kind, colon, r.node, variant, Arg_parse(variant, r.i + 1))
  ELSE POk(Pseudo(kind, r.node, None, colon.start, r.node.end), r.i)

\* the variant of the argument of a parsed name ("todo!" when there is no name)
VariantOf(kind, r) ==
  IF r.t # "Ok" THEN "todo!"
  ELSE IF kind = "PseudoClass" THEN PseudoClassArg(r.node.name)
  ELSE PseudoElementArg(r.node.name)

PseudoClassSelector_parse(i) ==
  IF expect(i, "Colon").t # "Ok" THEN expect(i, "Colon")
  ELSE PseudoAfterName("PseudoClass", PTok(i),
                       VariantOf("PseudoClass", InterpolableIdent_parse(i + 1)),
                       InterpolableIdent_parse(i + 1))

PseudoElementSelector_parse(i) ==
  IF expect(i, "ColonColon").t # "Ok" THEN expect(i, "ColonColon")
  ELSE PseudoAfterName("PseudoElement", PTok(i),
                       VariantOf("PseudoElement", InterpolableIdent_parse(i + 1)),
                       InterpolableIdent_parse(i + 1))

(***************************************************************************)
(* The arguments of `:nth-child(`: An+B in its seven shapes, written in    *)
(* lower and in upper case, the keywords and numbers of Nth, and what is   *)
(* close to them; each is followed by the `)` of the pseudo-class.         *)
(***************************************************************************)
\* the `n` terms and the a they stand for
NHeads ==
  {[text |-> <<"2", "n">>, a |-> 2], [text |-> <<"-", "2", "n">>, a |-> -2],
   [text |-> <<"1", "0", "n">>, a |-> 10], [text |-> <<"n">>, a |-> 1],
   [text |-> <<"+", "n">>, a |-> 1], [text |-> <<"-", "n">>, a |-> -1]}

Spaces == {<<>>, <<" ">>}

Signs == {[text |-> <<"+">>, v |-> 1], [text |-> <<"-">>, v |-> -1]}

\* signless integers
Uints == {[text |-> <<"1">>, v |-> 1], [text |-> <<"1", "2">>, v |-> 12]}

\* the seven shapes with the (a, b) of each
AnPlusBTable ==
  {[text |-> h.text \o w, a |-> h.a, b |-> 0] : h \in NHeads, w \in Spaces}
    \cup {[text |-> h.text \o w[1] \o s.text \o w[2] \o u.text, a |-> h.a, b |-> s.v * u.v] :
            h \in NHeads, w \in Spaces \X Spaces, s \in Signs, u \in Uints}

\* a text with every `n` written `N`
UpperN(text) == [k \in 1..Len(text) |-> IF text[k] = "n" THEN "N" ELSE text[k]]

\* an `n` term, blanks and a number without sign
UnsignedAfterN == {h.text \o <<" ">> \o u.text : h \in NHeads, u \in Uints}

\* dimensions whose value is no i32
NoInteger ==
  {<<"2", ".", "5", "n">>, <<"2", "1", "4", "7", "4", "8", "3", "6", "4", "8", "n">>,
   <<"-", "2", "1", "4", "7", "4", "8", "3", "6", "4", "9", "n">>}

NthWords ==
  {<<"o", "d", "d">>, <<"O", "D", "D">>, <<"O", "d", "d">>, <<"e", "v", "e", "n">>,
   <<"E", "v", "E", "n">>, <<"o", "d">>, <<"1">>, <<"-", "1">>, <<"1", "2">>, <<"1", ".", "5">>,
   <<"1", ".", "0">>, <<"+", ".", "5">>, <<"n", "-", "a">>, <<"2", "n", "+">>, <<"2", "n", "-", " ", "+", "1">>,
   <<"2", "n", " ", "+", " ", "1", ".", "5">>, <<"n", "-", "2", "1", "4", "7", "4", "8", "3", "6", "4", "8">>,
   <<"2", "n", " ", "+", " ", "2", "1", "4", "7", "4", "8", "3", "6", "4", "8">>,
   <<"2", "1", "4", "7", "4", "8", "3", "6", "4", "7", "n">>, <<"2", "p", "x">>, <<"+", " ", "n">>,
   <<"*">>, <<>>}

NthSources ==
  {w \o <<")">> :
     w \in {e.text : e \in AnPlusBTable} \cup {UpperN(e.text) : e \in AnPlusBTable}
             \cup UnsignedAfterN \cup NthWords
             \cup {h \o t : h \in NoInteger, t \in {<<>>, <<"+", "1">>}}}

(***************************************************************************)
(* The parser's state machine: the tokens of a source are bumped until     *)
(* Eof, an error or a panic, and a parse function is applied to them.      *)
(***************************************************************************)
MaxSel == 3

\* what a selector is written with
SelectorPieces ==
  {<<"a">>, <<".", "b">>, <<"#", "c">>, <<"#", "1">>, <<"*">>, <<"&">>, <<"|">>,
   <<" ">>, <<"+">>, <<">">>, <<"~">>, <<"|", "|">>, <<".">>, <<"#">>, <<"[">>, <<"/", "*", "*", "/">>}

RECURSIVE Concat(_)
Concat(ps) == IF ps = <<>> THEN <<>> ELSE Head(ps) \o Concat(Tail(ps))

Selectors == {Concat(ps) : ps \in Strings(SelectorPieces, MaxSel)}

Scenario1 == <<"a", ".", "b", "#", "c">>

Scenario2 == <<"a", " ", ".", "b">>

Scenario10 == <<".", "a", "+", ".", "b">>

\* id selectors: a name, what it begins with and what follows it
IdSources ==
  {<<"#">> \o n \o t :
     n \in {<<"1", "a", "b", "c">>, <<"1">>, <<"9", "-", "x">>, <<"a", "1">>, <<"-", "1">>,
            <<"_", "1">>, <<"1", "\\", "2">>},
     t \in {<<>>, <<" ">>, <<"{">>, <<".", "b">>, <<" ", "a">>}}

\* attribute selectors: the qualified names with the prefix each has, and
\* the same names with a blank or a comment before or after the bar
AttrNames ==
  {[text |-> <<"h", "r", "e", "f">>, prefix |-> "no", name |-> <<"h", "r", "e", "f">>],
   [text |-> <<"n", "s", "|", "a">>, prefix |-> "Ident", name |-> <<"a">>],
   [text |-> <<"*", "|", "a">>, prefix |-> "Asterisk", name |-> <<"a">>],
   [text |-> <<"|", "a">>, prefix |-> "None", name |-> <<"a">>]}

AttrGaps == {<<" ">>, <<"/", "*", "*", "/">>}

SpacedNames ==
  {<<"n", "s">> \o g \o <<"|", "a">> : g \in AttrGaps}
    \cup {<<"n", "s", "|">> \o g \o <<"a">> : g \in AttrGaps}
    \cup {<<"*">> \o g \o <<"|", "a">> : g \in AttrGaps}
    \cup {<<"*", "|">> \o g \o <<"a">> : g \in AttrGaps}
    \cup {<<"|">> \o g \o <<"a">> : g \in AttrGaps}

AttrMatchers ==
  {[text |-> <<"=">>, matcher |-> "Equals"], [text |-> <<"~", "=">>, matcher |-> "Tilde"],
   [text |-> <<"|", "=">>, matcher |-> "Bar"], [text |-> <<"^", "=">>, matcher |-> "Caret"],
   [text |-> <<"$", "=">>, matcher |-> "Dollar"], [text |-> <<"*", "=">>, matcher |-> "Asterisk"]}

AttrValues ==
  {[text |-> <<"\"", "h", "t", "t", "p", "\"">>, kind |-> "Str", value |-> <<"h", "t", "t", "p">>],
   [text |-> <<"v">>, kind |-> "Ident", value |-> <<"v">>]}

AttrModifiers == {[text |-> <<>>, modifier |-> <<>>], [text |-> <<" ", "i">>, modifier |-> <<"i">>]}

\* the attribute selectors of the grammar with what each is made of
AttrTable ==
  {[text |-> <<"[">> \o n.text \o <<"]">>, name |-> n, matcher |-> "no",
    value |-> [text |-> <<>>, kind |-> "no", value |-> <<>>], modifier |-> <<>>] :
     n \in AttrNames}
    \cup {[text |-> <<"[">> \o n.text \o m.text \o v.text \o f.text \o <<"]">>, name |-> n,
           matcher |-> m.matcher, value |-> v, modifier |-> f.modifier] :
            n \in AttrNames, m \in AttrMatchers, v \in AttrValues, f \in AttrModifiers}

\* what the inputs that are no attribute selector go on with after the name
AttrRests ==
  {<<"]">>, <<"]", "]">>, <<>>, <<"=", "v", "]">>, <<"=", "v", " ", "w", "]">>,
   <<" ", "b", "]", "]">>, <<" ", "b", "=", "v", " ", "w", "]">>,
   <<"=", "\"", "s", "\"", "\"", "t", "\"", "]">>, <<"=", "]">>, <<"v", "]">>}

AttrSources ==
  {e.text \o t : e \in AttrTable, t \in {<<>>, <<".", "b">>}}
    \cup {<<"[">> \o n \o r :
            n \in {e.text : e \in AttrNames} \cup SpacedNames \cup {<<>>, <<"*">>, <<"1">>},
            r \in AttrRests}

\* pseudo-classes and pseudo-elements: the arguments that are tried with
\* every name of the dispatch tables
PseudoArgs ==
  {<<"2", "n", "+", "1">>, <<"o", "d", "d">>, <<"a">>, <<"a", ",", " ", ".", "b">>,
   <<"a", " ", "b">>, <<">", " ", "a">>, <<"+", " ", "a", ",", " ", "b">>, <<"l", "t", "r">>,
   <<"e", "n", ",", " ", "\"", "f", "r", "\"">>, <<"a", ".", "b">>,
   <<"a", ".", "b", ",", " ", "c">>}

\* a name in upper case
Upper_of(c) == IF c \in Lower THEN Ascii[CodeOf(c) - 63] ELSE c

UpperCase(w) == [k \in 1..Len(w) |-> Upper_of(w[k])]

\* every second character in upper case
MixedCase(w) == [k \in 1..Len(w) |-> IF k % 2 = 0 THEN Upper_of(w[k]) ELSE w[k]]

Spellings(w) == {w, UpperCase(w), MixedCase(w)}

\* the names of the dispatch tables with the grammar of their argument
PseudoClassTable ==
  [name : NthNames, variant : {"Nth"}]
    \cup [name : SelectorListNames, variant : {"SelectorList"}]
    \cup [name : {<<"h", "a", "s">>}, variant : {"RelativeSelectorList"}]
    \cup [name : {<<"d", "i", "r">>}, variant : {"Ident"}]
    \cup [name : {<<"l", "a", "n", "g">>}, variant : {"LanguageRangeList"}]
    \cup [name : CompoundListNames, variant : {"CompoundSelectorList"}]
    \cup [name : HostNames, variant : {"CompoundSelector"}]

PseudoElementTable ==
  [name : {<<"p", "a", "r", "t">>}, variant : {"Ident"}]
    \cup [name : CueNames, variant : {"CompoundSelector"}]

\* names that are in no dispatch table
UnknownNames == {<<"f", "o", "o">>, <<"n", "o", "t", "x">>, <<"h", "o", "v", "e", "r">>}

PseudoNames ==
  UNION {Spellings(e.name) : e \in PseudoClassTable \cup PseudoElementTable} \cup UnknownNames

\* what follows the name: an argument in adjacent parentheses, parentheses
\* after a gap, a parenthesis that is not closed, or another selector
PseudoTails ==
  {<<"(">> \o a \o <<")">> : a \in PseudoArgs}
    \cup {<<" ", "(", "a", ")">>, <<"/", "*", "*", "/", "(", "a", ")">>, <<"(", "a">>,
          <<".", "b">>, <<" ">>, <<"(", "a", ")", " ">>}

PseudoSources ==
  {c \o n \o t : c \in {<<":">>, <<":", ":">>}, n \in PseudoNames, t \in PseudoTails}
    \cup {<<":", " ", "n", "o", "t", "(", "a", ")">>,
          <<":", ":", " ", "p", "a", "r", "t", "(", "p", ")">>,
          <<":", "/", "*", "*", "/", "n", "o", "t", "(", "a", ")">>, <<":", "(", "a", ")">>,
          <<":", ":", "(", "a", ")">>, <<":", "h", "a", "s", "(", " ", "a", ")">>,
          <<":", "h", "a", "s", "(", "/", "*", "*", "/", "a", ")">>}

\* a compound selector, a gap and a pseudo-class or pseudo-element
GapPseudos == {<<"a", " ", ":", "h", " ">>, <<"a", " ", ":", ":", "h", " ">>, <<"a", " ", "|", "a">>}

\* a namespace prefix, a gap and what follows it
PrefixGaps ==
  {x \o <<"|">> \o g \o y \o t :
     x \in {<<"a">>, <<"*">>}, g \in {<<" ">>, <<"/", "*", "*", "/">>},
     y \in {<<"b">>, <<"*">>, <<".", "b">>}, t \in {<<>>, <<" ">>}}

\* an attribute selector right after another simple selector
AttrAfterSimple ==
  {x \o <<"[", "h", "]">> \o t :
     x \in {<<"a">>, <<".", "a">>, <<"*">>}, t \in {<<>>, <<".", "b">>}}

ParserSources ==
  Selectors \cup NthSources \cup IdSources \cup AttrSources \cup PseudoSources \cup GapPseudos
    \cup PrefixGaps \cup AttrAfterSimple
    \cup {Scenario1, Scenario2, Scenario10}

ParserInit ==
  /\ source \in ParserSources
  /\ syntax = "Css"
  /\ debug_build \in BOOLEAN
  /\ state = InitialState
  /\ comments = EmptySink
  /\ tokens = <<>>
  /\ result = NoToken
  /\ lastOp = "new"

\* the tokenizer before its i-th bump
StateAt(i) == IF i <= NTok THEN Pre(i) ELSE Post(NTok)

\* a parse function is applied to a fresh parser and returns r
Parses(op, r) ==
  /\ Finished
  /\ lastOp = "bump"
  /\ result' = r
  /\ lastOp' = op
  /\ state' = IF r.t = "Ok" THEN StateAt(r.i) ELSE state
  /\ UNCHANGED <<source, syntax, debug_build, comments, tokens>>

ParseComplexSelector == Parses("ComplexSelector::parse", ComplexSelector_parse(1))

\* the token after the first compound selector of the source
AfterFirst == CompoundSelector_parse(1).i

\* ComplexSelector::parse up to the first call of parse_combinator
ParseCombinator ==
  /\ Finished
  /\ CompoundSelector_parse(1).t = "Ok"
  /\ Parses("parse_combinator", parse_combinator(AfterFirst))

ParseAnPlusB == Parses("AnPlusB::parse", AnPlusB_parse(1))

ParseNth == Parses("Nth::parse", Nth_parse(1))

ParseSimpleSelector == Parses("SimpleSelector::parse", SimpleSelector_parse(1))

ParsePseudoPage == Parses("PseudoPage::parse", PseudoPage_parse(1))

ParserNext ==
  \/ Bump
  \/ ParseComplexSelector
  \/ ParseCombinator
  \/ ParseAnPlusB
  \/ ParseNth
  \/ ParseSimpleSelector
  \/ ParsePseudoPage

ParserSpec == ParserInit /\ [][ParserNext]_vars

\* ComplexSelector::parse has returned
ParsedComplex == lastOp = "ComplexSelector::parse"

\* the kinds of the children of a node
ChildKinds(node) == [k \in 1..Len(node.children) |-> node.children[k].kind]

(***************************************************************************)
(* C13: a `+` written directly between two compound selectors is the       *)
(* NextSibling combinator: `.a+.b` parses into Compound,                   *)
(* Combinator(NextSibling), Compound.                                      *)
(***************************************************************************)
\* the compound selectors of one simple selector
Simples == {<<"a">>, <<".", "b">>, <<".", "a">>, <<"#", "c">>, <<"*">>, <<"&">>}

C13_PlusIsNextSibling ==
  (ParsedComplex /\ \E x \in Simples, y \in {<<".", "a">>, <<".", "b">>} :
                      source = x \o <<"+">> \o y) =>
    /\ result.t = "Ok"
    /\ ChildKinds(result.node) = <<"Compound", "Combinator", "Compound">>
    /\ result.node.children[2].comb = "NextSibling"

(***************************************************************************)
(* C14: every CompoundSelector of a parsed complex selector has at least   *)
(* one child, each child ends where the next one starts, and its span runs *)
(* from the first child's start to the last child's end; `a.b#c` gives one *)
(* compound with children Type(a), Class(b), Id(c) and span [0,5).         *)
(***************************************************************************)
\* the compound selectors of the complex selector that was returned
Compounds ==
  {result.node.children[k] : k \in {j \in 1..Len(result.node.children) :
                                      result.node.children[j].kind = "Compound"}}

C14_CompoundAdjacent ==
  (ParsedComplex /\ result.t = "Ok") =>
    /\ \A c \in Compounds :
         /\ Len(c.children) >= 1
         /\ \A k \in 1..Len(c.children) - 1 : c.children[k].end = c.children[k + 1].start
         /\ c.start = c.children[1].start
         /\ c.end = c.children[Len(c.children)].end
    /\ source = Scenario1 =>
         /\ Len(result.node.children) = 1
         /\ LET c == result.node.children[1]
            IN  /\ ChildKinds(c) = <<"TagName", "Class", "Id">>
                /\ c.children[1].prefix = None
                /\ c.children[1].name.name = Name(<<"a">>)
                /\ c.children[2].name.name = Name(<<"b">>)
                /\ c.children[3].name.name = Name(<<"c">>)
                /\ <<c.start, c.end>> = <<0, 5>>
                /\ <<result.node.start, result.node.end>> = <<0, 5>>

\* `a.b#c` was parsed into one compound selector of three children
C14_Witness ==
  /\ ParsedComplex
  /\ result.t = "Ok"
  /\ source = Scenario1
  /\ Len(result.node.children[1].children) = 3

(***************************************************************************)
(* C15: parse_combinator returns a Descendant combinator exactly when the  *)
(* next token is no explicit combinator, can start a compound selector and *)
(* lies after current_offset(); the combinator then spans the gap and no   *)
(* token is consumed (`a .b` gives Descendant [1,2)); when the token is    *)
(* adjacent no combinator is returned.                                     *)
(***************************************************************************)
ParsedCombinator == lastOp = "parse_combinator"

\* the token kinds SimpleSelector::parse starts a simple selector with
SimpleStarts ==
  {"Dot", "Hash", "NumberSign", "LBracket", "Colon", "ColonColon", "Ident",
   "Asterisk", "HashLBrace", "Bar", "Ampersand"}
    \cup (IF syntax \in {"Scss", "Sass"} THEN {"Percent"} ELSE {})

ExplicitCombinators == {"GreaterThan", "Plus", "Tilde", "BarBar"}

IsDescendant(r) ==
  r.t = "Ok" /\ r.node.kind = "Combinator" /\ r.node.comb = "Descendant"

C15_DescendantExactly ==
  (ParsedCombinator /\ IsOk(PTok(AfterFirst))) =>
    LET i == AfterFirst
        tok == PTok(i)
    IN  /\ IsDescendant(result) <=>
             /\ tok.kind \notin ExplicitCombinators
             /\ tok.kind \in SimpleStarts
             /\ POff(i) < tok.start
        /\ IsDescendant(result) =>
             /\ <<result.node.start, result.node.end>> = <<POff(i), tok.start>>
             /\ result.i = i
             /\ state = Pre(i)
        /\ (tok.kind \in SimpleStarts /\ POff(i) = tok.start) =>
             result = POk(None, i)
        /\ source = Scenario2 => result = POk(Combinator("Descendant", 1, 2), 2)

(***************************************************************************)
(* C16: every ComplexSelector returned has an odd number of children,      *)
(* compound selectors at the odd places and combinators at the even ones;  *)
(* an input that ends after a combinator makes the parse fail.             *)
(***************************************************************************)
\* what an explicit combinator is written with
CombinatorStrings == {<<">">>, <<"+">>, <<"~">>, <<"|", "|">>}

\* a simple selector, then a combinator at the end of the input
EndsAfterCombinator ==
  \E x \in Simples, g \in {<<>>, <<" ">>}, c \in CombinatorStrings, w \in {<<>>, <<" ">>} :
    source = x \o g \o c \o w

C16_Alternation ==
  ParsedComplex =>
    /\ result.t = "Ok" =>
         /\ Len(result.node.children) % 2 = 1
         /\ \A k \in 1..Len(result.node.children) :
              result.node.children[k].kind =
                IF k % 2 = 1 THEN "Compound" ELSE "Combinator"
    /\ (result.t = "Ok" /\ result.i >= NTok /\ NTok >= 2) =>
         T(NTok - 1).kind \notin ExplicitCombinators
    /\ EndsAfterCombinator =>
         result = PErr("ExpectSimpleSelector", Off(NChars), Off(NChars))

\* `a > a` and the like were parsed, and `a >` was refused
C16_Witness ==
  /\ ParsedComplex
  /\ \/ /\ result.t = "Ok"
        /\ Len(result.node.children) = 3
        /\ result.node.children[2].comb = "Child"
     \/ /\ source = <<"a", ">">>
        /\ result.t = "Err"

(***************************************************************************)
(* An+B and Nth.                                                           *)
(***************************************************************************)
ParsedAnPlusB == lastOp = "AnPlusB::parse"

ParsedNth == lastOp = "Nth::parse"

\* the An+B (a, b) was parsed and `)` is the next token
IsAnPlusB(a, b) ==
  /\ result.t = "Ok"
  /\ result.node.a = a
  /\ result.node.b = b
  /\ PTok(result.i).kind = "RParen"

\* C17: AnPlusB::parse computes the (a, b) the table of the seven shapes
\* states for every input of the table followed by `)`, `2n+1` giving a = 2
\* and b = 1, and a dimension whose value is no integer or no i32 fails with
\* ExpectInteger.
C17_AnPlusBTable ==
  ParsedAnPlusB =>
    /\ \A e \in AnPlusBTable :
         source = e.text \o <<")">> => IsAnPlusB(e.a, e.b)
    /\ \A h \in NoInteger, t \in {<<>>, <<"+", "1">>} :
         source = h \o t \o <<")">> =>
           result.t = "Err" /\ result.kind = "ExpectInteger"

\* a `-` with a blank on both sides, which no Minus token is bumped for
MinusBetweenBlanks(text) ==
  \E k \in 2..Len(text) - 1 :
    text[k - 1] = " " /\ text[k] = "-" /\ text[k + 1] = " "

\* the inputs of the table that are accepted with their (a, b) when written
\* with `n`
Accepted == {e \in AnPlusBTable : ~MinusBetweenBlanks(e.text)}

\* C18: an accepted An+B input with `N` for every `n` gives the same (a, b),
\* the single-token forms `2N-1`, `N-1`, `+N-1` and `-N-1` included.
C18_CaseInsensitive ==
  ParsedAnPlusB =>
    \A e \in Accepted :
      source \in {e.text \o <<")">>, UpperN(e.text) \o <<")">>} =>
        IsAnPlusB(e.a, e.b)

\* C19: an `n` term followed by a Number without sign, as in `2n 1`, does
\* not give an An+B whose b is that number.
C19_UnsignedNumberIsNotB ==
  ParsedAnPlusB =>
    \A h \in NHeads, u \in Uints :
      source = h.text \o <<" ">> \o u.text \o <<")">> =>
        ~(result.t = "Ok" /\ result.node.b = u.v)

\* the spellings of `odd` and of `even`
OddWords == {<<o, d1, d2>> : o \in {"o", "O"}, d1 \in {"d", "D"}, d2 \in {"d", "D"}}

EvenWords ==
  {<<e1, v, e2, n>> : e1 \in {"e", "E"}, v \in {"v", "V"}, e2 \in {"e", "E"}, n \in {"n", "N"}}

\* the Nth of a variant that spans the first token was parsed
IsNth(variant) ==
  /\ result.t = "Ok"
  /\ result.i = 2
  /\ result.node.kind = "Nth"
  /\ result.node.variant = variant
  /\ result.node.start = PTok(1).start
  /\ result.node.end = PTok(1).end

\* the first token is a Number whose raw slice has a digit other than 0 after
\* its point
HasFraction(tok) ==
  \E p, k \in tok.rs..tok.re - 1 :
    /\ CharAtOff(p) = "."
    /\ k > p
    /\ CharAtOff(k) \in {"1", "2", "3", "4", "5", "6", "7", "8", "9"}

\* C20: Nth::parse returns Odd for the ident `odd` and Even for `even` in any
\* case, Integer for a Number without fractional part, ExpectInteger at the
\* span of a Number with one, and for every other leading token what
\* AnPlusB::parse returns.
C20_Nth ==
  (ParsedNth /\ IsOk(PTok(1))) =>
    IF PTok(1).kind = "Ident" /\ CharsOf(PTok(1).rs, PTok(1).re) \in OddWords
    THEN IsNth("Odd")
    ELSE IF PTok(1).kind = "Ident" /\ CharsOf(PTok(1).rs, PTok(1).re) \in EvenWords
    THEN IsNth("Even")
    ELSE IF PTok(1).kind = "Number"
    THEN IF HasFraction(PTok(1))
         THEN result = PErr("ExpectInteger", PTok(1).start, PTok(1).end)
         ELSE IsNth("Integer")
    ELSE result = Nth("AnPlusB", AnPlusB_parse(1))

\* `ODD`, `EvEn`, `12`, `1.5` and `2n+1` were parsed
C20_Witness ==
  /\ ParsedNth
  /\ \/ source = <<"O", "D", "D", ")">> /\ result.node.variant = "Odd"
     \/ source = <<"E", "v", "E", "n", ")">> /\ result.node.variant = "Even"
     \/ source = <<"1", "2", ")">> /\ result.node.variant = "Integer"
     \/ source = <<"1", ".", "5", ")">> /\ result.t = "Err"
     \/ source = <<"2", "n", "+", "1", ")">> /\ result.node.variant = "AnPlusB"

(***************************************************************************)
(* Id selectors.                                                           *)
(***************************************************************************)
ParsedSimple == lastOp = "SimpleSelector::parse"

\* the characters of a name after `#`
IdNameChars == Lower \cup Upper \cup Digits \cup NonAscii \cup {"-", "_", "\\"}

\* the source is `#`, a name that begins with a digit and ends before
\* position q, and something that is not part of a name
DigitNameUpTo(q) ==
  /\ NChars >= 2
  /\ source[1] = "#"
  /\ source[2] \in Digits
  /\ q \in 2..NChars
  /\ \A k \in 2..q : source[k] \in IdNameChars
  /\ q < NChars => source[q + 1] \notin IdNameChars

\* C26: an id selector whose name begins with an ASCII digit fails with
\* InvalidIdSelectorName, and the span of the error runs from one byte after
\* the `#` to the end of the last character of the name, [1,5) for `#1abc`.
C26_DigitIdName ==
  ParsedSimple =>
    \A q \in 2..NChars :
      DigitNameUpTo(q) => result = PErr("InvalidIdSelectorName", 1, Off(q))

(***************************************************************************)
(* Escapes in quoted strings.                                              *)
(***************************************************************************)
\* C27: in a quoted string a backslash escapes the one character after it
\* (or 1 to 6 hex digits and one optional whitespace): an escaped quote does
\* not end the string, what follows the escape is scanned normally and the
\* string ends at the first matching quote that is not escaped, so `"\""` and
\* `"a\\"` are one Str token each; a line feed that is not escaped fails with
\* UnexpectedLinebreak.
C27_StringEscapes ==
  NTok >= 1 =>
    \A e \in StrEscapeTable, t \in {<<>>, <<" ", "a">>, <<";">>} :
      source = e.text \o t =>
        IF e.lf >= 0
        THEN T(1) = Err("UnexpectedLinebreak", e.lf, e.lf + 1)
        ELSE /\ IsOk(T(1))
             /\ T(1).kind = "Str"
             /\ T(1).start = 0
             /\ T(1).end = e.end
             /\ Post(1).pos = e.end

(***************************************************************************)
(* The grammar of numbers.                                                 *)
(***************************************************************************)
\* digits from i on, one at least, up to the position returned (0 when none)
DigitsFrom(s, i) == IF DigitRun(s, i) > i THEN DigitRun(s, i) ELSE 0

\* `.digits` or `digits (. digits)?` from i on, up to the position returned
MantissaFrom(s, i) ==
  IF i <= Len(s) /\ s[i] = "." THEN DigitsFrom(s, i + 1)
  ELSE IF DigitsFrom(s, i) = 0 THEN 0
  ELSE IF DigitsFrom(s, i) <= Len(s) /\ s[DigitsFrom(s, i)] = "."
  THEN DigitsFrom(s, DigitsFrom(s, i) + 1)
  ELSE DigitsFrom(s, i)

\* nothing, or `[eE][+-]?digits`, from i to the end of s
ExponentFrom(s, i) ==
  \/ i = Len(s) + 1
  \/ /\ i < Len(s)
     /\ s[i] \in {"e", "E"}
     /\ DigitsFrom(s, IF s[i + 1] \in {"+", "-"} THEN i + 2 ELSE i + 1) = Len(s) + 1

\* an optional sign, a mantissa and an optional exponent
NumberGrammar(s) ==
  /\ s # <<>>
  /\ MantissaFrom(s, IF s[1] \in {"+", "-"} THEN 2 ELSE 1) # 0
  /\ ExponentFrom(s, MantissaFrom(s, IF s[1] \in {"+", "-"} THEN 2 ELSE 1))

\* C28: the raw slice of every Number token matches the grammar of numbers,
\* and the scan of a number consumes exactly the characters of that slice, so
\* a `.` that no digit follows is left for the next token.
C28_NumberGrammar ==
  \A i \in 1..NTok :
    (IsOk(T(i)) /\ T(i).kind = "Number") =>
      /\ NumberGrammar(CharsOf(T(i).rs, T(i).re))
      /\ Off(Post(i).pos) = T(i).re

(***************************************************************************)
(* What follows a number.                                                  *)
(***************************************************************************)
\* an ident-start: an ASCII letter, `_`, a character outside ASCII or `\`
IdentStart(c) == c \in Lower \cup Upper \cup NonAscii \cup {"_", "\\"}

\* the kind of the token that begins with a digit and goes on with the
\* characters from position 2
KindAfterNumber ==
  IF IdentStart(source[2]) \/ (source[2] = "-" /\ NChars >= 3 /\ IdentStart(source[3]))
  THEN "Dimension"
  ELSE IF source[2] = "%" THEN "Percentage"
  ELSE "Number"

\* C29: after a number the token is a Dimension iff an ident-start, or a `-`
\* and an ident-start, comes next, a Percentage iff `%` comes next, and a
\* plain Number otherwise: `1-1` and `1- 2` begin with the Number `1`.
C29_DimensionOrPercentage ==
  (/\ NTok >= 1
   /\ NChars >= 2
   /\ source[1] \in Digits
   /\ source[2] \notin Digits \cup {".", "e", "E"})
  => /\ T(1).t # "Panic"
     /\ IsOk(T(1)) => T(1).kind = KindAfterNumber
     /\ KindAfterNumber = "Number" =>
          /\ IsOk(T(1))
          /\ T(1).end = 1
          /\ Post(1).pos = 1

(***************************************************************************)
(* Attribute selectors.                                                    *)
(***************************************************************************)
\* the name of an InterpolableIdent, <<>> for None
NameOrNone(node) == IF node = None THEN <<>> ELSE node.name

\* the prefix of a WqName: no, None, Ident or Asterisk
PrefixOf(wq) ==
  IF wq.prefix = None THEN "no"
  ELSE IF wq.prefix.of = None THEN "None"
  ELSE wq.prefix.of.kind

\* the result is the attribute selector an entry of the table describes, made
\* of all tokens of the entry
IsAttribute(e) ==
  /\ result.t = "Ok"
  /\ result.node.kind = "Attribute"
  /\ result.node.start = 0
  /\ result.node.end = Len(e.text)
  /\ PTok(result.i).start = Len(e.text)
  /\ result.node.name.name.name = Name(e.name.name)
  /\ PrefixOf(result.node.name) = e.name.prefix
  /\ IF e.matcher = "no" THEN result.node.matcher = None
     ELSE result.node.matcher # None /\ result.node.matcher.matcher = e.matcher
  /\ IF e.value.kind = "no" THEN result.node.value = None
     ELSE /\ result.node.value # None
          /\ result.node.value.kind = e.value.kind
          /\ (IF e.value.kind = "Str" THEN result.node.value.value
              ELSE result.node.value.name) = Name(e.value.value)
  /\ NameOrNone(result.node.modifier) = Name(e.modifier)

\* C21: AttributeSelector::parse on `[` name matcher? value? modifier? `]`
\* consumes the tokens from `[` through `]` and returns the name, matcher,
\* value and modifier found there with the span from `[` to `]`:
\* `[href^="http" i]` gives href, Caret, Str("http") and i, and `[href]`
\* gives href alone.
C21_AttributeSelector ==
  ParsedSimple =>
    \A e \in AttrTable, t \in {<<>>, <<".", "b">>} :
      source = e.text \o t => IsAttribute(e)

\* the prefix, the bar and the name of a qualified name touch
Contiguous(wq) ==
  /\ wq.prefix.of # None => wq.prefix.of.end = wq.prefix.end - 1
  /\ wq.prefix.end = wq.name.start

\* C22: in an attribute selector the prefix, the `|` and the name of
\* `ns|name`, `*|name` and `|name` are contiguous in the source, and
\* whitespace or a comment between them makes the parse fail with
\* ExpectNoWsOrComment.
C22_AttributeNameAdjacency ==
  ParsedSimple =>
    /\ (/\ result.t = "Ok"
        /\ result.node.kind = "Attribute"
        /\ result.node.name.prefix # None) => Contiguous(result.node.name)
    /\ \A n \in SpacedNames, r \in AttrRests :
         source = <<"[">> \o n \o r =>
           result.t = "Err" /\ result.kind = "ExpectNoWsOrComment"

(***************************************************************************)
(* Pseudo-classes and pseudo-elements.                                     *)
(***************************************************************************)
\* a pseudo-class or pseudo-element was parsed from the first token on
ParsedPseudo ==
  /\ ParsedSimple
  /\ result.t = "Ok"
  /\ result.node.kind \in {"PseudoClass", "PseudoElement"}

\* the token after the name is `(` and begins where the name ends
AdjacentLParen == PTok(3).kind = "LParen" /\ PTok(3).start = PTok(2).end

\* C23: a parsed pseudo-class or pseudo-element has an argument iff the
\* token after its name is a `(` that begins where the name ends; then its
\* span runs from the colon(s) through the closing `)`; otherwise the
\* argument is None, the `(` is not consumed and the span ends where the
\* name ends.
C23_PseudoArgument ==
  ParsedPseudo =>
    /\ result.node.start = PTok(1).start
    /\ result.node.name = Literal(PTok(2))
    /\ (result.node.arg # None) <=> AdjacentLParen
    /\ AdjacentLParen =>
         /\ PTok(result.i - 1).kind = "RParen"
         /\ result.node.end = PTok(result.i - 1).end
         /\ result.node.arg.of.start >= PTok(3).end
         /\ result.node.arg.of.end <= PTok(result.i - 1).start
    /\ ~AdjacentLParen =>
         /\ result.i = 3
         /\ result.node.end = PTok(2).end

\* an argument in adjacent parentheses was parsed and closed
C23_Witness ==
  /\ ParsedPseudo
  /\ AdjacentLParen
  /\ result.node.arg # None
  /\ result.node.end = PTok(result.i - 1).end
  /\ result.node.end > PTok(3).end

\* every name of a dispatch table in every spelling, with every argument
PseudoCasesOf(colon, table) ==
  UNION {{[text |-> colon \o n \o <<"(">> \o a \o <<")">>, variant |-> e.variant, arg |-> a] :
            n \in Spellings(e.name), a \in PseudoArgs} : e \in table}

PseudoCases ==
  PseudoCasesOf(<<":">>, PseudoClassTable) \cup PseudoCasesOf(<<":", ":">>, PseudoElementTable)

\* the arguments of PseudoArgs that the grammar of a variant derives
Derives(variant) ==
  CASE variant = "Nth" ->
         {<<"2", "n", "+", "1">>, <<"o", "d", "d">>}
    [] variant = "SelectorList" ->
         {<<"o", "d", "d">>, <<"a">>, <<"a", ",", " ", ".", "b">>, <<"a", " ", "b">>,
          <<"l", "t", "r">>, <<"a", ".", "b">>, <<"a", ".", "b", ",", " ", "c">>}
    [] variant = "RelativeSelectorList" ->
         {<<"o", "d", "d">>, <<"a">>, <<"a", ",", " ", ".", "b">>, <<"a", " ", "b">>,
          <<"l", "t", "r">>, <<"a", ".", "b">>, <<"a", ".", "b", ",", " ", "c">>,
          <<">", " ", "a">>, <<"+", " ", "a", ",", " ", "b">>}
    [] variant = "Ident" ->
         {<<"o", "d", "d">>, <<"a">>, <<"l", "t", "r">>}
    [] variant = "LanguageRangeList" ->
         {<<"o", "d", "d">>, <<"a">>, <<"l", "t", "r">>,
          <<"e", "n", ",", " ", "\"", "f", "r", "\"">>}
    [] variant = "CompoundSelectorList" ->
         {<<"o", "d", "d">>, <<"a">>, <<"a", ",", " ", ".", "b">>, <<"l", "t", "r">>,
          <<"a", ".", "b">>, <<"a", ".", "b", ",", " ", "c">>}
    [] variant = "CompoundSelector" ->
         {<<"o", "d", "d">>, <<"a">>, <<"l", "t", "r">>, <<"a", ".", "b">>}

\* the node of an argument of a variant
ArgShape(variant, node) ==
  CASE variant = "Nth" -> node.kind = "Nth"
    [] variant = "SelectorList" -> node.kind = "List" /\ node.of = "Complex"
    [] variant = "RelativeSelectorList" -> node.kind = "List" /\ node.of = "Relative"
    [] variant = "Ident" -> node.kind = "Ident"
    [] variant = "LanguageRangeList" -> node.kind = "List" /\ node.of = "LanguageRange"
    [] variant = "CompoundSelectorList" -> node.kind = "List" /\ node.of = "Compound"
    [] variant = "CompoundSelector" -> node.kind = "Compound"

\* the argument a of the pseudo was parsed by the grammar of the variant:
\* it is accepted iff the grammar derives it, and gives a node of the variant
ParsedBy(variant, a) ==
  /\ result.t # "Panic"
  /\ result.t = "Ok" <=> a \in Derives(variant)
  /\ result.t = "Ok" =>
       /\ result.node.arg # None
       /\ result.node.arg.variant = variant
       /\ ArgShape(variant, result.node.arg.of)

\* C24: the grammar of the argument of a functional pseudo-class or
\* pseudo-element is chosen by its name, compared without regard to ASCII
\* case: nth-* give Nth, not/is/where/matches SelectorList, has
\* RelativeSelectorList, dir an ident, lang LanguageRangeList,
\* -moz-any/-webkit-any/current/past/future CompoundSelectorList,
\* host/host-context a CompoundSelector; ::part an ident and
\* ::cue/::cue-region/::slotted a CompoundSelector.
C24_ArgumentDispatch ==
  ParsedSimple => \A c \in PseudoCases : source = c.text => ParsedBy(c.variant, c.arg)

\* `:HAS(> a)` was parsed with a list of relative selectors as its argument
C24_Witness ==
  /\ ParsedPseudo
  /\ source = <<":", "H", "A", "S", "(", ">", " ", "a", ")">>
  /\ result.node.arg # None
  /\ result.node.arg.variant = "RelativeSelectorList"
  /\ result.node.arg.of.items[1].combinator # None

\* a pseudo-class or pseudo-element of an unknown name with an argument
UnknownPseudos ==
  {c \o n \o <<"(">> \o a \o <<")">> :
     c \in {<<":">>, <<":", ":">>}, n \in UnknownNames, a \in PseudoArgs}

\* C25: a pseudo-class or pseudo-element whose name is in no dispatch table
\* and that is followed by an adjacent `(` makes the parser return an Error
\* value; the parse does not abort.
C25_UnknownPseudoIsError ==
  (ParsedSimple /\ source \in UnknownPseudos) => result.t = "Err"

(***************************************************************************)
(* The kinds of tokens before which a gap is a Descendant combinator.       *)
(***************************************************************************)
\* what a further simple selector begins with, one for each kind of token
\* that CompoundSelector::parse goes on with
FurtherStarts ==
  {<<".", "b">>, <<"#", "c">>, <<":", "h", " ">>, <<":", ":", "h", " ">>, <<"&">>, <<"a">>,
   <<"*">>, <<"|", "a">>, <<"#">>}

\* C30: the kinds of tokens before which a gap gives a Descendant
\* combinator in parse_combinator are the kinds of tokens that
\* CompoundSelector::parse accepts as the start of a further simple
\* selector; a compound selector, whitespace and such a token parse as two
\* compound selectors joined by Descendant.
C30_DescendantKinds ==
  /\ (/\ ParsedCombinator
      /\ IsOk(PTok(AfterFirst))
      /\ POff(AfterFirst) < PTok(AfterFirst).start) =>
       (IsDescendant(result) <=> PTok(AfterFirst).kind \in CompoundContinues)
  /\ (ParsedComplex /\ \E y \in FurtherStarts : source = <<"a", " ">> \o y) =>
       /\ result.t = "Ok"
       /\ ChildKinds(result.node) = <<"Compound", "Combinator", "Compound">>
       /\ result.node.children[2].comb = "Descendant"

(***************************************************************************)
(* A `#` at the start of a token.                                          *)
(***************************************************************************)
\* the source begins with `#` and the first bump has returned
HashFirst == NTok >= 1 /\ NChars >= 1 /\ source[1] = "#"

\* the token a `#` at the start of the source begins, by what follows it
KindAfterHash ==
  IF NChars >= 2 /\ source[2] \in IdNameChars THEN "Hash"
  ELSE IF NChars >= 2 /\ source[2] = "{" /\ syntax \in {"Scss", "Sass"} THEN "HashLBrace"
  ELSE "NumberSign"

\* C31: a `#` at the start of a token that an ident-continue character or
\* `\` follows gives Hash, whose raw slice begins at the `#`; `#{` gives
\* HashLBrace in SCSS and Sass; in every other case, `#{` in CSS and Less
\* and `#` at the end of input included, it gives NumberSign; no bump
\* returns the error InvalidHash.
C31_HashStart ==
  /\ HashFirst =>
       /\ IsOk(T(1))
       /\ T(1).kind = KindAfterHash
       /\ T(1).start = 0
       /\ T(1).kind = "Hash" => T(1).rs = 0 /\ T(1).re = T(1).end /\ T(1).end >= 2
       /\ T(1).kind = "HashLBrace" => T(1).end = 2
       /\ T(1).kind = "NumberSign" => T(1).end = 1
  /\ \A i \in 1..NTok : ~(T(i).t = "Err" /\ T(i).kind = "InvalidHash")

(***************************************************************************)
(* handle_escape applied to a slice: escapes of hex digits, escapes of     *)
(* other characters, a lone `\` at the end, and slices without `\`.        *)
(***************************************************************************)
\* runs of hex digits and the code point each stands for after char::from_u32
HexRuns ==
  {[hex |-> <<"4">>, cp |-> 4],
   [hex |-> <<"4", "1">>, cp |-> 65],
   [hex |-> <<"e", "9">>, cp |-> 233],
   [hex |-> <<"E", "9">>, cp |-> 233],
   [hex |-> <<"0">>, cp |-> 0],
   [hex |-> <<"d", "7", "f", "f">>, cp |-> 55295],
   [hex |-> <<"d", "8", "0", "0">>, cp |-> 65533],
   [hex |-> <<"D", "F", "F", "F">>, cp |-> 65533],
   [hex |-> <<"e", "0", "0", "0">>, cp |-> 57344],
   [hex |-> <<"1", "0", "f", "f", "f", "f">>, cp |-> 1114111],
   [hex |-> <<"1", "1", "0", "0", "0", "0">>, cp |-> 65533],
   [hex |-> <<"f", "f", "f", "f", "f", "f">>, cp |-> 65533],
   [hex |-> <<"0", "0", "0", "0", "4", "1">>, cp |-> 65]}

\* what follows an escape that does not begin with a hex digit, and its value
Followers ==
  {[text |-> <<>>, value |-> <<>>, err |-> FALSE],
   [text |-> <<" ">>, value |-> <<>>, err |-> FALSE],
   [text |-> <<" ", " ">>, value |-> <<32>>, err |-> FALSE],
   [text |-> <<"\n">>, value |-> <<>>, err |-> FALSE],
   [text |-> <<"\t", " ">>, value |-> <<32>>, err |-> FALSE],
   [text |-> <<" ", "b">>, value |-> <<98>>, err |-> FALSE],
   [text |-> <<" ", "4">>, value |-> <<52>>, err |-> FALSE],
   [text |-> <<"g">>, value |-> <<103>>, err |-> FALSE],
   [text |-> <<"\\", "g">>, value |-> <<103>>, err |-> FALSE],
   [text |-> <<"\\">>, value |-> <<>>, err |-> TRUE],
   [text |-> <<" ", "\\">>, value |-> <<>>, err |-> TRUE],
   [text |-> <<"\\", "4", "1">>, value |-> <<65>>, err |-> FALSE]}

\* what follows six hex digits and begins with a hex digit
HexFollowers ==
  {[text |-> <<"4">>, value |-> <<52>>, err |-> FALSE],
   [text |-> <<"a", " ">>, value |-> <<97, 32>>, err |-> FALSE],
   [text |-> <<"4", "1", " ">>, value |-> <<52, 49, 32>>, err |-> FALSE]}

\* what follows the escape of a character that is no hex digit
PlainFollowers ==
  {[text |-> <<>>, value |-> <<>>, err |-> FALSE],
   [text |-> <<"4">>, value |-> <<52>>, err |-> FALSE],
   [text |-> <<" ">>, value |-> <<32>>, err |-> FALSE],
   [text |-> <<"a", " ">>, value |-> <<97, 32>>, err |-> FALSE],
   [text |-> <<"\\", "4", "1">>, value |-> <<65>>, err |-> FALSE],
   [text |-> <<"\\">>, value |-> <<>>, err |-> TRUE]}

\* what precedes an escape
Leaders ==
  {[text |-> <<>>, value |-> <<>>],
   [text |-> <<"a">>, value |-> <<97>>],
   [text |-> <<"\\", "g">>, value |-> <<103>>],
   [text |-> <<"\\", "4", " ">>, value |-> <<4>>]}

\* characters that are no hex digits, escaped
EscapedChars ==
  {[char |-> "g", cp |-> 103],
   [char |-> "\"", cp |-> 34],
   [char |-> "\\", cp |-> 92],
   [char |-> "<e9>", cp |-> 233],
   [char |-> " ", cp |-> 32],
   [char |-> "\n", cp |-> 10],
   [char |-> "-", cp |-> 45]}

EscapeCase(text, value, err) == [text |-> text, value |-> value, err |-> err]

\* the slices with an escape, with the value or the error of each
EscapeCases ==
  {EscapeCase(l.text \o <<"\\">> \o h.hex \o f.text, l.value \o <<h.cp>> \o f.value, f.err) :
     l \in Leaders, h \in HexRuns, f \in Followers}
    \cup {EscapeCase(l.text \o <<"\\">> \o h.hex \o f.text, l.value \o <<h.cp>> \o f.value, f.err) :
            l \in Leaders, h \in {x \in HexRuns : Len(x.hex) = 6}, f \in HexFollowers}
    \cup {EscapeCase(l.text \o <<"\\", c.char>> \o f.text, l.value \o <<c.cp>> \o f.value, f.err) :
            l \in Leaders, c \in EscapedChars, f \in PlainFollowers}
    \cup {EscapeCase(l.text \o <<"\\">>, l.value, TRUE) : l \in Leaders}

\* slices without `\`
PlainSlices == Strings({"a", "4", " ", "<e9>", "\""}, 3)

EscapeInit ==
  /\ source \in {c.text : c \in EscapeCases} \cup PlainSlices
  /\ syntax = "Css"
  /\ debug_build = FALSE
  /\ state = InitialState
  /\ comments = NoSink
  /\ tokens = <<>>
  /\ result = [err |-> FALSE, value |-> <<>>]
  /\ lastOp = "new"

\* handle_escape is applied to the slice
ApplyHandleEscape ==
  /\ lastOp = "new"
  /\ result' = handle_escape(source)
  /\ lastOp' = "handle_escape"
  /\ UNCHANGED <<source, syntax, debug_build, state, comments, tokens>>

EscapeNext == ApplyHandleEscape

EscapeSpec == EscapeInit /\ [][EscapeNext]_vars

Unescaped == lastOp = "handle_escape"

\* C32: handle_escape maps `\` and 1 to 6 hex digits to the character of
\* that code point, taking at most 6 hex digits and at most one whitespace
\* after them; a surrogate or a value above 10FFFF gives U+FFFD; `\` and
\* any other character gives that character; a lone `\` at the end gives
\* InvalidEscape; a slice without `\` is returned unchanged.
C32_HandleEscape ==
  Unescaped =>
    /\ \A c \in EscapeCases :
         source = c.text =>
           /\ result.err = c.err
           /\ ~c.err => result.value = c.value
    /\ source \in PlainSlices => result = [err |-> FALSE, value |-> Name(source)]

\* `\d800 b` was unescaped to U+FFFD and `b`
C32_Witness ==
  /\ Unescaped
  /\ source = <<"\\", "d", "8", "0", "0", " ", "b">>
  /\ result = [err |-> FALSE, value |-> <<ReplacementCharacter, 98>>]

(***************************************************************************)
(* A punctuator and the name after it.                                     *)
(***************************************************************************)
\* a parser of `.`, `:` or `::` and a name was applied to a source that
\* begins with its punctuator and an identifier
PunctuatorAndName ==
  /\ lastOp \in {"SimpleSelector::parse", "PseudoPage::parse"}
  /\ IsOk(PTok(1))
  /\ IsOk(PTok(2))
  /\ PTok(2).kind = "Ident"
  /\ PTok(1).kind \in IF ParsedSimple THEN {"Dot", "Colon", "ColonColon"} ELSE {"Colon"}

\* C33: ClassSelector, PseudoClassSelector, PseudoElementSelector and
\* PseudoPage fail with ExpectNoWsOrComment iff the end of the punctuator
\* differs from the start of the name; when they touch, the span of the
\* node starts where the punctuator starts.
C33_PunctuatorAdjacency ==
  PunctuatorAndName =>
    /\ (result = ExpectNoWsOrComment(PTok(1), PTok(2))) <=> (PTok(1).end # PTok(2).start)
    /\ (PTok(1).end # PTok(2).start) => result.t = "Err"
    /\ (PTok(1).end = PTok(2).start /\ result.t = "Ok") =>
         /\ result.node.start = PTok(1).start
         /\ result.node.name = Literal(PTok(2))

\* `. a` was refused as a class selector for the blank after the dot
C33_Witness ==
  /\ PunctuatorAndName
  /\ PTok(1).kind = "Dot"
  /\ PTok(1).end < PTok(2).start
  /\ result = PErr("ExpectNoWsOrComment", PTok(1).end, PTok(2).start)

(***************************************************************************)
(* The `|` of a type selector.                                             *)
(***************************************************************************)
\* a type selector was parsed from the first token on
TypeStart ==
  /\ ParsedSimple
  /\ IsOk(PTok(1))
  /\ PTok(1).kind \in {"Ident", "Asterisk", "Bar"}

\* the index of the token that may be the namespace separator
BarAt == IF PTok(1).kind = "Bar" THEN 1 ELSE 2

\* the `|` is there and touches the name or `*` before it, if there is one
Separator ==
  \/ PTok(1).kind = "Bar"
  \/ IsOk(PTok(2)) /\ PTok(2).kind = "Bar" /\ PTok(2).start = PTok(1).end

\* C34: TypeSelector::parse takes a `|` for the namespace separator only
\* when it touches the ident or `*` before it; a `|` after a gap is left
\* unconsumed and the result is the TagName or Universal without prefix.
\* After the `|` a name or `*` that does not touch it fails with
\* ExpectNoWsOrComment, and any other token fails with ExpectTypeSelector.
C34_NamespaceSeparator ==
  TypeStart =>
    /\ (~Separator /\ IsOk(PTok(2))) =>
         /\ result.t = "Ok"
         /\ result.i = 2
         /\ result.node.kind = IF PTok(1).kind = "Ident" THEN "TagName" ELSE "Universal"
         /\ result.node.prefix = None
         /\ <<result.node.start, result.node.end>> = <<PTok(1).start, PTok(1).end>>
    /\ (Separator /\ IsOk(PTok(BarAt + 1))) =>
         LET bar == PTok(BarAt)
             next == PTok(BarAt + 1)
         IN  IF next.kind \notin {"Ident", "Asterisk"}
             THEN result = PErr("ExpectTypeSelector", next.start, next.end)
             ELSE IF next.start # bar.end
             THEN result = PErr("ExpectNoWsOrComment", bar.end, next.start)
             ELSE /\ result.t = "Ok"
                  /\ result.i = BarAt + 2
                  /\ result.node.kind = IF next.kind = "Ident" THEN "TagName" ELSE "Universal"
                  /\ result.node.prefix # None
                  /\ <<result.node.prefix.start, result.node.prefix.end>> = <<PTok(1).start, bar.end>>
                  /\ <<result.node.start, result.node.end>> = <<PTok(1).start, next.end>>

\* `a |a` was parsed into the tag name `a`, the `|` left where it is
C34_Witness ==
  /\ TypeStart
  /\ PTok(1).kind = "Ident"
  /\ PTok(2).kind = "Bar"
  /\ PTok(2).start > PTok(1).end
  /\ result = POk(WqName(None, Literal(PTok(1)), PTok(1).start, PTok(1).end), 2)

(***************************************************************************)
(* The url flag and the frame on top of the template stack.                *)
(***************************************************************************)
\* C35: in every reachable state of the tokenizer whose top template frame
\* is Static, the url flag is Template iff the terminator of that frame is
\* `)`: the scan that is resumed is the one of the URL template for a `)`
\* frame and the one of the string template for a quote frame, also when a
\* quoted string with interpolation or another `url(` is written inside the
\* interpolation of a URL.
C35_UrlFlagMatchesFrame ==
  \A i \in 1..NTok :
    TopIs(Post(i), "Static") =>
      (Post(i).url = "Template" <=> TopFrame(Post(i))[2] = ")")

UrlKinds == {"UrlPrefix", "UrlRaw", "UrlTemplate"}

(* C36: immediately after bump() returns a token other than UrlPrefix,
   UrlRaw or UrlTemplate, current_offset() equals the token's span.end,
   whether another character follows the token or the input ends there. *)
C36_OffsetIsSpanEnd ==
  \A i \in 1..NTok :
    (IsOk(T(i)) /\ T(i).kind \notin UrlKinds) =>
      current_offset(Post(i)) = T(i).end

LayoutChange == {"Indent", "Dedent"}

(* C37: indent_size changes only during a bump() that returns Indent or
   Dedent, and after such a bump it equals the length of the returned
   token's span; a bump() returning any other token, and every peek(),
   leave indent_size unchanged. *)
C37_IndentSizeFrame ==
  /\ \A i \in 1..NTok :
       IF IsOk(T(i)) /\ T(i).kind \in LayoutChange
       THEN Post(i).indent_size = T(i).end - T(i).start
       ELSE Post(i).indent_size = Pre(i).indent_size
  /\ (lastOp = "peek" /\ NTok = 0) => state.indent_size = InitialState.indent_size
  /\ (lastOp = "peek" /\ NTok > 0) => state.indent_size = Post(NTok).indent_size

\* the first character after the i-th token that is no space or tab
CommentStart(i) == RunEnd(Post(i).pos, {" ", "\t"})

EndsWithLineComment(i) ==
  CharAt(CommentStart(i)) = "/" /\ CharAt(CommentStart(i) + 1) = "/"

\* the line break that ends the line of the i-th token, or the end of input
LineEnd(i) ==
  CHOOSE q \in CommentStart(i)..NChars :
    /\ AtEnd(q) \/ CharAt(q) = "\n"
    /\ \A k \in CommentStart(i)..q - 1 : CharAt(k) # "\n"

\* the first character of the following lines that is no whitespace
NextLineToken(i) == RunEnd(LineEnd(i), WhiteSpace)

NextLineStart(i) ==
  CHOOSE j \in LineEnd(i)..NextLineToken(i) - 1 :
    CharAt(j) = "\n" /\ \A k \in j + 1..NextLineToken(i) - 1 : CharAt(k) # "\n"

(* C38: in Sass, when a line ends with a `//` line comment and the next
   line holds a token, the bump() after the last token before the comment
   returns the layout token (Indent, Dedent or Linebreak, by the next
   line's indentation) that it would return were the comment absent. *)
C38_LayoutAfterLineComment ==
  syntax = "Sass" =>
    \A i \in 1..NTok - 1 :
      ( /\ IsOk(T(i)) /\ T(i).kind = "Ident"
        /\ Skips(i + 1)
        /\ EndsWithLineComment(i)
        /\ ~AtEnd(LineEnd(i))
        /\ ~AtEnd(NextLineToken(i))
        /\ CharAt(NextLineToken(i)) # "/" ) =>
        LET start == Off(NextLineStart(i) + 1)
            end == Off(NextLineToken(i))
        IN  T(i + 1) = Tok(LayoutKind(end - start, Pre(i + 1).indent_size), start, end, 0, 0)

\* the relative selectors of a parsed `:has(...)`
RelativeItems ==
  IF ParsedPseudo /\ result.node.arg # None
       /\ result.node.arg.variant = "RelativeSelectorList"
  THEN {result.node.arg.of.items[k] : k \in 1..Len(result.node.arg.of.items)}
  ELSE {}

(* C39: a RelativeSelector has a leading combinator only when an explicit
   combinator token (`>`, `+`, `~`, `||`) precedes its complex selector;
   whitespace or a comment after the `(` of `:has(` or after a list comma
   gives combinator = None, never a leading Descendant. *)
C39_LeadingCombinator ==
  \A item \in RelativeItems :
    item.combinator # None =>
      /\ item.combinator.comb \in {CombinatorKind(kind) : kind \in ExplicitCombinators}
      /\ CharAtOff(item.combinator.start) \in {">", "+", "~", "|"}

\* ComplexSelector::parse returned a selector and left the next token
NextAfterComplex == PTok(result.i)

(* C40: every token kind with which SimpleSelector::parse can start a
   simple selector is accepted by CompoundSelector::parse as an adjacent
   further child: a parsed selector never stops in front of an adjacent
   token that starts a simple selector, and `a[h]` is one compound of two
   children with all its tokens consumed. *)
C40_CompoundAcceptsSimpleStarts ==
  (lastOp = "ComplexSelector::parse" /\ result.t = "Ok") =>
    /\ ~( /\ IsOk(NextAfterComplex)
          /\ NextAfterComplex.kind \in SimpleStarts
          /\ POff(result.i) = NextAfterComplex.start )
    /\ source = <<"a", "[", "h", "]">> =>
         /\ NextAfterComplex.kind = "Eof"
         /\ Len(result.node.children) = 1
         /\ Len(result.node.children[1].children) = 2
====
